---- MODULE Spec2Model ----
(***************************************************************************)
(* Rules Chat page (ui/src/app/rules/page.tsx) of process_zero_demo.       *)
(*                                                                         *)
(* Text is a sequence of one-character strings, so that concatenation,     *)
(* trimming and splitting are computed character by character as the       *)
(* JavaScript string methods compute them.  Fixed literals of the code     *)
(* ("Chat request failed", "Error: ") are kept as one element each.        *)
(* JavaScript indices are 0-based; messages[i] of the code is              *)
(* messages[i + 1] here.                                                   *)
(*                                                                         *)
(* An action is one run of the page's JavaScript between two awaits: an    *)
(* event handler, or the continuation of handleSend after a fetch or a     *)
(* read settled.  State updates queued by a click or a key press are       *)
(* rendered before the next event is dispatched, and queued updaters are   *)
(* applied in the order they were queued, so an action leaves the state    *)
(* as its updaters leave it and the next handler sees that state.          *)
(***************************************************************************)
EXTENDS Naturals, Integers, Sequences, FiniteSets, TLC

VARIABLES messages, input, busy, error, calls, nSends, nFrames,
          storage, pendingLoad, gate, editor, ruleStore,
          engine, dropdown, deploy

\* the rest of the application, which the Rules Chat page does not touch
site == <<gate, editor, ruleStore, engine, dropdown, deploy>>

\* the Rules Chat page and its stored history
chat == <<messages, input, busy, error, calls, nSends, nFrames,
          storage, pendingLoad>>

vars == <<chat, site>>

\* ------------------------------------------------------------------ bounds
\* handleSend invocations over the life of the page
MaxSends == 2
\* frames the server writes into the chat/stream responses of the page
MaxFrames == 2
\* condition rows in the rule editor
MaxRows == 2
\* requests about the rules that wait for the server
MaxInFlight == 2

\* ------------------------------------------------------- string primitives
NL == "\n"
Whitespace == {" ", "\r", "\t", NL}

None == <<>>
Some(v) == <<v>>

RECURSIVE TrimStart(_)
TrimStart(s) ==
  IF s # <<>> /\ Head(s) \in Whitespace THEN TrimStart(Tail(s)) ELSE s

RECURSIVE TrimEnd(_)
TrimEnd(s) ==
  IF s # <<>> /\ s[Len(s)] \in Whitespace
    THEN TrimEnd(SubSeq(s, 1, Len(s) - 1))
    ELSE s

\* String.prototype.trim
Trim(s) == TrimEnd(TrimStart(s))

\* String.prototype.startsWith
StartsWith(s, p) == Len(s) >= Len(p) /\ SubSeq(s, 1, Len(p)) = p

\* String.prototype.split with a non-empty string separator: the pieces
\* between the non-overlapping occurrences of sep found left to right.
RECURSIVE SplitFrom(_, _, _)
SplitFrom(s, sep, i) ==
  IF i + Len(sep) - 1 > Len(s) THEN <<s>>
  ELSE IF SubSeq(s, i, i + Len(sep) - 1) = sep
    THEN <<SubSeq(s, 1, i - 1)>>
           \o SplitFrom(SubSeq(s, i + Len(sep), Len(s)), sep, 1)
    ELSE SplitFrom(s, sep, i + 1)

Split(s, sep) == SplitFrom(s, sep, 1)



\* ------------------------------------------------------------ wire format
\* Bytes on the wire are one-character strings too; every character is one
\* byte except EAcute, whose UTF-8 encoding is the two bytes Lead, Trail.
Lead == "C3"
Trail == "A9"
EAcute == "U+00E9"
Replacement == "U+FFFD"

RECURSIVE Utf8Encode(_)
Utf8Encode(s) ==
  IF s = <<>> THEN <<>>
  ELSE (IF Head(s) = EAcute THEN <<Lead, Trail>> ELSE <<Head(s)>>)
         \o Utf8Encode(Tail(s))

\* TextDecoder.decode(value, { stream: true }): an incomplete character at
\* the end of value is held back (pend) and completed by the next call;
\* bytes that form no character decode to U+FFFD.
RECURSIVE DecodeFrom(_, _, _)
DecodeFrom(pend, bytes, out) ==
  IF bytes = <<>> THEN [text |-> out, pending |-> pend]
  ELSE IF pend
    THEN IF Head(bytes) = Trail
           THEN DecodeFrom(FALSE, Tail(bytes), Append(out, EAcute))
           ELSE DecodeFrom(FALSE, bytes, Append(out, Replacement))
  ELSE IF Head(bytes) = Lead THEN DecodeFrom(TRUE, Tail(bytes), out)
  ELSE IF Head(bytes) = Trail
    THEN DecodeFrom(FALSE, Tail(bytes), Append(out, Replacement))
  ELSE DecodeFrom(FALSE, Tail(bytes), Append(out, Head(bytes)))

DecodeStream(pend, bytes) == DecodeFrom(pend, bytes, <<>>)

\* JSON texts are written in a short notation: {Ca} stands for
\* {"type":"chunk","content":"a"}, {Ex} for {"type":"error","error":"x"},
\* {S} for {"type":"start"}, {D} for {"type":"done"}, {U} for an object of
\* another type; null is written out.  Anything else is not JSON.
TypeOfTag ==
  [t \in {"S", "C", "D", "E", "U"} |->
     CASE t = "S" -> "start"
       [] t = "C" -> "chunk"
       [] t = "D" -> "done"
       [] t = "E" -> "error"
       [] t = "U" -> "other"]

TagOfType ==
  [t \in {"start", "chunk", "done", "error", "other"} |->
     CHOOSE g \in DOMAIN TypeOfTag : TypeOfTag[g] = t]

Letters == {"a", "x", EAcute}

JsonNull == <<"n", "u", "l", "l">>

\* JSON.stringify of a stream event
JsonOfEvent(type, text) == <<"{", TagOfType[type]>> \o text \o <<"}">>

\* JSON.parse: the value, or thrown = TRUE for a SyntaxError
JsonParse(t) ==
  IF t = JsonNull
    THEN [thrown |-> FALSE, isNull |-> TRUE, type |-> "", text |-> <<>>]
  ELSE IF /\ Len(t) >= 3
          /\ t[1] = "{"
          /\ t[Len(t)] = "}"
          /\ t[2] \in DOMAIN TypeOfTag
          /\ \A i \in 3..(Len(t) - 1) : t[i] \in Letters
    THEN [thrown |-> FALSE, isNull |-> FALSE, type |-> TypeOfTag[t[2]],
          text |-> SubSeq(t, 3, Len(t) - 1)]
  ELSE [thrown |-> TRUE, isNull |-> FALSE, type |-> "", text |-> <<>>]

DataPrefix == <<"d", "a", "t", "a", ":">>

\* What the chat/stream endpoint writes.  An event frame is the data line
\* of the event followed by a blank line; the other frames are the ways a
\* frame can be malformed.
EventFrames ==
  { [kind |-> "event", type |-> "start", text |-> <<>>],
    [kind |-> "event", type |-> "chunk", text |-> <<"a">>],
    [kind |-> "event", type |-> "chunk", text |-> <<EAcute>>],
    [kind |-> "event", type |-> "done", text |-> <<>>],
    [kind |-> "event", type |-> "other", text |-> <<>>],
    [kind |-> "event", type |-> "error", text |-> <<"x">>],
    [kind |-> "event", type |-> "error", text |-> <<>>] }

MalformedFrames ==
  { [kind |-> "raw", type |-> "comment", text |-> <<":", "p">>],
    [kind |-> "raw", type |-> "empty", text |-> DataPrefix \o <<" ">>],
    [kind |-> "raw", type |-> "syntax", text |-> DataPrefix \o <<"{", "C">>],
    [kind |-> "raw", type |-> "null", text |-> DataPrefix \o JsonNull] }

Frames == EventFrames \cup MalformedFrames

FrameBytes(f) ==
  IF f.kind = "event"
    THEN Utf8Encode(DataPrefix \o <<" ">> \o JsonOfEvent(f.type, f.text)
                      \o <<NL, NL>>)
    ELSE Utf8Encode(f.text \o <<NL, NL>>)


\* ----------------------------------------------------------- local storage
\* messages.slice(-200) and valid.slice(-200)
HistoryCap == 200

SliceLast_KeepAll(s, n) == s

SliceLast(s, n) ==
  IF Len(s) <= n THEN s ELSE SubSeq(s, Len(s) - n + 1, Len(s))

\* The text stored under CHAT_STORAGE_KEY, by what JSON.parse makes of it:
\* a text that is not JSON, the JSON of a value that is not an array, or
\* the JSON of an array; an array item is described by what the filter of
\* the loading effect looks at.
BrokenText == [syntax |-> FALSE, isArray |-> FALSE, items |-> <<>>]
ObjectText == [syntax |-> TRUE, isArray |-> FALSE, items |-> <<>>]
ArrayText(items) == [syntax |-> TRUE, isArray |-> TRUE, items |-> items]

JsonOfMessage(m) ==
  [truthy |-> TRUE, role |-> m.role, contentIsString |-> TRUE,
   content |-> m.content]

\* JSON.stringify of a list of messages
JsonStringify(msgs) ==
  ArrayText([i \in 1..Len(msgs) |-> JsonOfMessage(msgs[i])])

\* item && (item.role === "user" || item.role === "assistant") &&
\* typeof item.content === "string"
ValidItem_Any(item) == TRUE

ValidItem(item) ==
  /\ item.truthy
  /\ item.role \in {"user", "assistant"}
  /\ item.contentIsString

MessageOfItem(item) == [role |-> item.role, content |-> item.content]

\* parsed.filter(...), the items read as messages
KeepMessages(valid) == [i \in 1..Len(valid) |-> MessageOfItem(valid[i])]

ValidMessages(items) == KeepMessages(SelectSeq(items, ValidItem))

\* localStorage.getItem is the stored text or null; setItem and removeItem
getItem(store) == store
setItem(store, text) == Some(text)
removeItem(store) == None

\* The loading effect: the list it passes to setMessages, or None when it
\* returns without calling setMessages (no item, a text that JSON.parse
\* rejects, a value that is not an array).
LoadEffect(raw) ==
  IF raw = None THEN None
  ELSE IF ~raw[1].syntax THEN None
  ELSE IF ~raw[1].isArray THEN None
  ELSE Some(SliceLast(ValidMessages(raw[1].items), HistoryCap))

\* The persistence effect, which runs after a render in which messages is
\* a new array.
PersistEffect ==
  storage' = IF messages' = messages THEN storage
             ELSE setItem(storage,
                          JsonStringify(SliceLast(messages', HistoryCap)))

\* ------------------------------------------------- schema and readiness
\* column names and notification emails the operator can enter
ErpNames == {"a", "b"}
CrmNames == {"a"}
Emails == {"e"}

\* lib/api.ts: the request each function sends.  name is the path segment
\* (encodeURIComponent is undone by the server's routing, so the segment
\* stands for the name itself), arg the name carried in the body.
SchemaRequest(method, resource, name, arg) ==
  [method |-> method, resource |-> resource, name |-> name, arg |-> arg]

upsertERPSchemaColumn_AsDelete(columnName) ==
  SchemaRequest("DELETE", "erp", columnName, "")

upsertERPSchemaColumn(columnName) ==
  SchemaRequest("PUT", "erp", columnName, "")

deleteERPSchemaColumn(columnName) ==
  SchemaRequest("DELETE", "erp", columnName, "")

addCRMColumn(columnName) == SchemaRequest("POST", "crm", "", columnName)

renameCRMColumn(columnName, newName) ==
  SchemaRequest("PUT", "crm", columnName, newName)

deleteCRMColumn(columnName) == SchemaRequest("DELETE", "crm", columnName, "")

addNotificationEmail(email) == SchemaRequest("POST", "email", "", email)

deleteNotificationEmail(email) == SchemaRequest("DELETE", "email", email, "")

\* The schema store of the server: the ERP column names, the CRM column
\* names and the notification emails, each without duplicates.
EmptySchema == [erp |-> {}, crm |-> {}, emails |-> {}]
ReadySchema == [erp |-> {"a"}, crm |-> {"a"}, emails |-> {"e"}]

Accepted(schema) == [ok |-> TRUE, schema |-> schema]
Rejected(schema) == [ok |-> FALSE, schema |-> schema]

\* what the server makes of a request: the schema after it, and whether
\* it answered OK
Serve(schema, req) ==
  CASE req.resource = "erp" /\ req.method = "PUT" ->
         Accepted([schema EXCEPT !.erp = @ \cup {req.name}])
    [] req.resource = "erp" /\ req.method = "DELETE" ->
         IF req.name \in schema.erp
           THEN Accepted([schema EXCEPT !.erp = @ \ {req.name}])
           ELSE Rejected(schema)
    [] req.resource = "crm" /\ req.method = "POST" ->
         IF req.arg \in schema.crm THEN Rejected(schema)
         ELSE Accepted([schema EXCEPT !.crm = @ \cup {req.arg}])
    [] req.resource = "crm" /\ req.method = "PUT" ->
         IF req.name \notin schema.crm \/ req.arg \in schema.crm
           THEN Rejected(schema)
           ELSE Accepted([schema EXCEPT
                            !.crm = (@ \ {req.name}) \cup {req.arg}])
    [] req.resource = "crm" /\ req.method = "DELETE" ->
         IF req.name \in schema.crm
           THEN Accepted([schema EXCEPT !.crm = @ \ {req.name}])
           ELSE Rejected(schema)
    [] req.resource = "email" /\ req.method = "POST" ->
         IF req.arg \in schema.emails THEN Rejected(schema)
         ELSE Accepted([schema EXCEPT !.emails = @ \cup {req.arg}])
    [] req.resource = "email" /\ req.method = "DELETE" ->
         IF req.name \in schema.emails
           THEN Accepted([schema EXCEPT !.emails = @ \ {req.name}])
           ELSE Rejected(schema)
    [] OTHER -> Rejected(schema)

\* SchemaStoreStatus, as the readiness gate computes it from three counts
SchemaStoreStatus(erp, crm, emails) ==
  [erp_columns_count |-> erp,
   crm_columns_count |-> crm,
   notification_emails_count |-> emails,
   can_use_chat |-> erp >= 1 /\ crm >= 1 /\ emails >= 1]

\* GET /schema-store/status
status(schema) ==
  SchemaStoreStatus(Cardinality(schema.erp), Cardinality(schema.crm),
                    Cardinality(schema.emails))

\* The status the schema page holds before its first load.  The literal
\* has no notification_emails_count; a count that is absent is written 0.
emptySchemaStatus_Unlocked ==
  [erp_columns_count |-> 0, crm_columns_count |-> 0,
   notification_emails_count |-> 0, can_use_chat |-> TRUE]

emptySchemaStatus ==
  [erp_columns_count |-> 0, crm_columns_count |-> 0,
   notification_emails_count |-> 0, can_use_chat |-> FALSE]

\* The layout with its RulesNavLink (canUseChat; navPc is "loading" until
\* loadStatus has ended, then "loaded" or "failed"; navCanceled once the
\* cleanup of its effect has run) and,
\* on the route "schema", the schema page: schemaStore, schemaStatus, busy,
\* loading while the load of its mounting effect is in flight, requests
\* the mutation requests the running handler has still to await,
\* refreshing while it awaits refreshSchema, saveErp the trimmedName, the
\* erpOriginalName and the parsedRules of a running handleSaveErpColumn,
\* error the error the page shows.
Layout(schema, route) ==
  [schema |-> schema, route |-> route,
   canUseChat |-> FALSE, navPc |-> "loading", navCanceled |-> FALSE,
   schemaStore |-> EmptySchema, schemaStatus |-> emptySchemaStatus,
   busy |-> FALSE, loading |-> route = "schema",
   requests |-> <<>>, refreshing |-> FALSE, saveErp |-> None,
   error |-> None]

\* the operator on the Rules Chat page of a site that is ready
GateAtRest ==
  [Layout(ReadySchema, "rules") EXCEPT
     !.canUseChat = TRUE, !.navPc = "loaded"]

\* ----------------------------------------------------------- rule editor
\* The values of a payload: a string, a boolean, or a number, which is
\* NaN or the fraction num / den.
JsString(text) ==
  [type |-> "string", text |-> text, nan |-> FALSE, num |-> 0, den |-> 1]
JsNumber(num, den) ==
  [type |-> "number", text |-> <<>>, nan |-> FALSE, num |-> num, den |-> den]
NaN == [type |-> "number", text |-> <<>>, nan |-> TRUE, num |-> 0, den |-> 1]
JsBoolean(b) ==
  [type |-> "boolean", text |-> <<>>, nan |-> FALSE,
   num |-> IF b THEN 1 ELSE 0, den |-> 1]

Digit ==
  [c \in {"0", "1", "2", "3", "4", "5", "6", "7", "8", "9"} |->
     CASE c = "0" -> 0 [] c = "1" -> 1 [] c = "2" -> 2 [] c = "3" -> 3
       [] c = "4" -> 4 [] c = "5" -> 5 [] c = "6" -> 6 [] c = "7" -> 7
       [] c = "8" -> 8 [] c = "9" -> 9]

RECURSIVE DigitsValue(_, _)
DigitsValue(s, n) ==
  IF s = <<>> THEN n ELSE DigitsValue(Tail(s), 10 * n + Digit[Head(s)])

\* Number(text): white space around the text is dropped, the empty text
\* is 0, a decimal literal is its value, any other text is NaN.  (Signs,
\* exponents and the other literals of the language are not among the
\* texts the editor is given.)
Number(text) ==
  LET t == Trim(text)
      dots == {i \in 1..Len(t) : t[i] = "."}
  IN  IF t = <<>> THEN JsNumber(0, 1)
      ELSE IF \A i \in 1..Len(t) : t[i] \in DOMAIN Digit
        THEN JsNumber(DigitsValue(t, 0), 1)
      ELSE IF /\ Cardinality(dots) = 1
              /\ Len(t) >= 2
              /\ \A i \in (1..Len(t)) \ dots : t[i] \in DOMAIN Digit
        THEN JsNumber(DigitsValue(SelectSeq(t, LAMBDA c : c # "."), 0),
                      10 ^ (Len(t) - (CHOOSE i \in dots : TRUE)))
      ELSE NaN

\* String.prototype.toLowerCase, on the letters the editor is given
ToLowerCase(text) ==
  [i \in 1..Len(text) |-> IF text[i] = "T" THEN "t" ELSE text[i]]

isMappingRule(ruleType) == ruleType = "customerNameMapping"
isConfigRule(ruleType) ==
  ruleType \in {"customerReference", "paymentReference"}
isNumericConditional(ruleType) == ruleType = "deliveryDays"

numericConfigKeys ==
  {<<"customerNamePrefixLength">>, <<"invoiceIdPadLength">>}
booleanConfigKeys ==
  {<<"includeYear">>, <<"useInvoiceTotalWithoutDecimals">>}

\* acc[key] !== undefined and acc[key] = value, for an object whose
\* properties are kept as the sequence of its entries
HasKey_Never(acc, key) == FALSE

\* the object has an entry of its own under the key
HasOwn(acc, key) == \E i \in 1..Len(acc) : acc[i].key = key

\* names every object literal inherits a property under
ObjectPrototypeKeys == {<<"constructor">>, <<"toString">>}

\* acc[key] !== undefined
HasKey(acc, key) == key \in ObjectPrototypeKeys \/ HasOwn(acc, key)

Put(acc, key, value) ==
  IF HasOwn(acc, key)
    THEN [i \in 1..Len(acc) |->
            IF acc[i].key = key THEN [key |-> key, value |-> value]
            ELSE acc[i]]
    ELSE Append(acc, [key |-> key, value |-> value])

\* rows.reduce(...) of save: builtRows in acc, and duplicateKeys
RECURSIVE BuildRows(_, _, _)
BuildRows(rows, numeric, st) ==
  IF rows = <<>> THEN st
  ELSE LET key == Trim(Head(rows).key)
           value == Trim(Head(rows).value)
       IN  IF key = <<>> \/ value = <<>>
             THEN BuildRows(Tail(rows), numeric, st)
             ELSE BuildRows(Tail(rows), numeric,
                    [acc |-> Put(st.acc, key,
                                 IF numeric THEN Number(value)
                                            ELSE JsString(value)),
                     duplicateKeys |-> IF HasKey(st.acc, key)
                                         THEN st.duplicateKeys \cup {key}
                                         ELSE st.duplicateKeys])

\* `Duplicate keys: ${Array.from(duplicateKeys).join(", ")}`
DuplicateMessage(duplicateKeys) == <<"Duplicate keys: ", duplicateKeys>>

\* the argument save passes to onSave: the built rows of a mapping rule,
\* the typed fields of a config rule, the default and the conditions of
\* a conditional rule
Payload(ruleType, builtRows, defaultValue) ==
  IF isMappingRule(ruleType) THEN builtRows
  ELSE IF isConfigRule(ruleType)
    THEN [i \in 1..Len(builtRows) |->
            [key |-> builtRows[i].key,
             value |->
               IF builtRows[i].key \in numericConfigKeys
                 THEN Number(builtRows[i].value.text)
               ELSE IF builtRows[i].key \in booleanConfigKeys
                 THEN JsBoolean(ToLowerCase(builtRows[i].value.text)
                                  = <<"t", "r", "u", "e">>)
               ELSE JsString(builtRows[i].value.text)]]
  ELSE [_default |-> IF isNumericConditional(ruleType)
                       THEN Number(defaultValue)
                       ELSE JsString(defaultValue),
        conditions |-> builtRows]

\* RuleEditor for a rule that has no data yet: saving is true while save
\* awaits onSave, and payload is the argument of that call
RuleEditor(ruleType) ==
  [ruleType |-> ruleType, ruleData |-> None, rows |-> <<>>,
   defaultValue |-> <<>>, saving |-> FALSE, error |-> None,
   payload |-> None]

\* String(value), for the values of rules: texts, booleans and numbers
\* that are not negative and have at most one decimal
RECURSIVE DecimalDigits(_)
DecimalDigits(n) ==
  IF n < 10 THEN <<CHOOSE c \in DOMAIN Digit : Digit[c] = n>>
  ELSE DecimalDigits(n \div 10) \o DecimalDigits(n % 10)

String(v) ==
  IF v.type = "string" THEN v.text
  ELSE IF v.type = "boolean"
    THEN IF v.num = 1 THEN <<"t", "r", "u", "e">>
         ELSE <<"f", "a", "l", "s", "e">>
  ELSE IF v.nan THEN <<"N", "a", "N">>
  ELSE IF v.den = 1 THEN DecimalDigits(v.num)
  ELSE DecimalDigits(v.num \div 10) \o <<".">> \o DecimalDigits(v.num % 10)

\* Object.entries(value).map(([key, target]) => ({key, value:
\* String(target)})), [] for a value that is not an object
asMappingRows(value) ==
  IF value = None THEN <<>>
  ELSE [i \in 1..Len(value[1]) |->
          [key |-> value[1][i].key, value |-> String(value[1][i].value)]]

asConditional(value) ==
  IF value = None THEN [defaultValue |-> <<>>, rows |-> <<>>]
  ELSE [defaultValue |-> String(value[1]._default),
        rows |-> asMappingRows(Some(value[1].conditions))]

initialState(ruleType, ruleData) ==
  IF isMappingRule(ruleType) \/ isConfigRule(ruleType)
    THEN [defaultValue |-> <<>>, rows |-> asMappingRows(ruleData)]
    ELSE asConditional(ruleData)

\* the editor once the effect of its first render has run
Mounted(ruleType, ruleData) ==
  [RuleEditor(ruleType) EXCEPT
     !.ruleData = ruleData,
     !.rows = initialState(ruleType, ruleData).rows,
     !.defaultValue = initialState(ruleType, ruleData).defaultValue]

EditorAtRest == RuleEditor("deliveryDays")

addRow ==
  /\ Len(editor.rows) < MaxRows
  /\ editor' = [editor EXCEPT
                  !.rows = Append(@, [key |-> <<>>, value |-> <<>>])]
  /\ UNCHANGED <<chat, gate, ruleStore, engine, dropdown, deploy>>

updateRow(index, field, text) ==
  /\ index + 1 \in 1..Len(editor.rows)
  /\ editor' = [editor EXCEPT
                  !.rows[index + 1] =
                     IF field = "key" THEN [@ EXCEPT !.key = text]
                                      ELSE [@ EXCEPT !.value = text]]
  /\ UNCHANGED <<chat, gate, ruleStore, engine, dropdown, deploy>>

removeRow(index) ==
  /\ index + 1 \in 1..Len(editor.rows)
  /\ editor' = [editor EXCEPT
                  !.rows = [i \in 1..(Len(@) - 1) |->
                              IF i < index + 1 THEN @[i] ELSE @[i + 1]]]
  /\ UNCHANGED <<chat, gate, ruleStore, engine, dropdown, deploy>>

\* the Default Value input, rendered for the conditional rules
setDefaultValue(text) ==
  /\ ~isMappingRule(editor.ruleType)
  /\ ~isConfigRule(editor.ruleType)
  /\ editor' = [editor EXCEPT !.defaultValue = text]
  /\ UNCHANGED <<chat, gate, ruleStore, engine, dropdown, deploy>>

\* save up to its await, or through catch and finally when it throws;
\* its button is disabled while saving
save ==
  /\ ~editor.saving
  /\ \E b \in {BuildRows(editor.rows, isNumericConditional(editor.ruleType),
                          [acc |-> <<>>, duplicateKeys |-> {}])} :
       editor' =
         IF b.duplicateKeys # {}
           THEN [editor EXCEPT
                   !.error = Some(DuplicateMessage(b.duplicateKeys))]
           ELSE [editor EXCEPT
                   !.error = None, !.saving = TRUE,
                   !.payload = Some(Payload(editor.ruleType, b.acc,
                                            editor.defaultValue))]
  /\ UNCHANGED <<chat, gate, ruleStore, engine, dropdown, deploy>>

\* onSave resolves, or rejects with an Error
onSaveResolves ==
  /\ editor.saving
  /\ editor' = [editor EXCEPT !.saving = FALSE, !.payload = None]
  /\ UNCHANGED <<chat, gate, ruleStore, engine, dropdown, deploy>>

onSaveRejects ==
  /\ editor.saving
  /\ editor' = [editor EXCEPT !.saving = FALSE, !.payload = None,
                              !.error = Some(<<"write failed">>)]
  /\ UNCHANGED <<chat, gate, ruleStore, engine, dropdown, deploy>>

\* ------------------------------------------------------ rule resolution
\* A rule is an object, kept as the sequence of its entries (conditions
\* of a conditional rule, the whole of a mapping rule); Get is the value
\* of a key it has.
Get(entries, key) ==
  entries[CHOOSE i \in 1..Len(entries) : entries[i].key = key].value

\* resolve(rule, key): the condition under exactly this key, else the
\* default
resolve_Trimming(rule, key) ==
  IF HasOwn(rule.conditions, Trim(key))
    THEN Get(rule.conditions, Trim(key))
    ELSE rule._default

resolve(rule, key) ==
  IF HasOwn(rule.conditions, key) THEN Get(rule.conditions, key)
  ELSE rule._default

\* the engine with a case to work on, and no result yet
Engine(kind, rule, arg) ==
  [kind |-> kind, rule |-> rule, input |-> arg, result |-> None]

EngineAtRest == Engine("none", <<>>, <<>>)

\* map(rule, x): the value under exactly this key, the empty string
\* included, else x itself
map(rule, x) == IF HasOwn(rule, x) THEN Get(rule, x).text ELSE x

\* ------------------------------------------------------ customer dropdown
\* String.prototype.includes
Includes(text, part) ==
  \E i \in 1..(Len(text) + 1) :
    /\ i + Len(part) - 1 <= Len(text)
    /\ SubSeq(text, i, i + Len(part) - 1) = part

\* CustomerDropdown before its load has settled
CustomerDropdown ==
  [pc |-> "loading", customers |-> <<>>, mappedNames |-> <<>>,
   query |-> <<>>]

DropdownAtRest == [CustomerDropdown EXCEPT !.pc = "failed"]

\* the customers the select shows for the query
filtered(customers, query) ==
  IF Trim(ToLowerCase(query)) = <<>> THEN customers
  ELSE SelectSeq(customers,
                 LAMBDA customer :
                   Includes(ToLowerCase(customer), Trim(ToLowerCase(query))))

\* the text of the option of a customer: mappedNames[customer] is
\* undefined for a customer that is no key, and the empty string is falsy
OptionText(mappedNames, customer) ==
  IF /\ HasOwn(mappedNames, customer)
     /\ Get(mappedNames, customer).text # <<>>
     /\ Get(mappedNames, customer).text # customer
    THEN customer \o <<" ", "-", ">", " ">> \o Get(mappedNames, customer).text
    ELSE customer

\* load: both requests resolved (customerNameMapping is None when the
\* rules have none), or one of them failed
LoadResolves(crmCustomers, customerNameMapping) ==
  /\ dropdown.pc = "loading"
  /\ dropdown' = [dropdown EXCEPT
                    !.pc = "loaded",
                    !.customers = crmCustomers,
                    !.mappedNames = IF customerNameMapping = None THEN <<>>
                                    ELSE customerNameMapping[1]]
  /\ UNCHANGED <<chat, gate, editor, ruleStore, engine, deploy>>

LoadFails ==
  /\ dropdown.pc = "loading"
  /\ dropdown' = [dropdown EXCEPT
                    !.pc = "failed", !.customers = <<>>,
                    !.mappedNames = <<>>]
  /\ UNCHANGED <<chat, gate, editor, ruleStore, engine, deploy>>

setQuery(text) ==
  /\ dropdown' = [dropdown EXCEPT !.query = text]
  /\ UNCHANGED <<chat, gate, editor, ruleStore, engine, deploy>>

\* ------------------------------------------------------------ deployment
\* the tries of the three health checks of the deploy script
HealthTries == 50

HealthChecks == <<"backend", "openapi", "ui">>

\* the deploy script at its start: check is the health check that runs,
\* i the loop counter of its latest round (0 before the first), code the
\* last status read, status the exit status once the script has ended
DeployScript ==
  [pc |-> "setup", check |-> 1, i |-> 0, code |-> None, ok |-> {}, failed |-> {}, complete |-> FALSE,
   status |-> None]

DeployAtRest == [DeployScript EXCEPT !.pc = "exited", !.status = Some(1)]

\* the script after wait_for_http_200 has returned: under set -e a
\* status that is not 0 ends the script with it
AfterWait_Ignoring(d, returned) ==
  IF d.check < Len(HealthChecks)
    THEN [d EXCEPT !.check = @ + 1, !.i = 0, !.code = None]
    ELSE [d EXCEPT !.pc = "tail"]

AfterWait(d, returned) ==
  IF returned # 0 THEN [d EXCEPT !.pc = "exited", !.status = Some(returned)]
  ELSE IF d.check < Len(HealthChecks)
    THEN [d EXCEPT !.check = @ + 1, !.i = 0, !.code = None]
    ELSE [d EXCEPT !.pc = "tail"]

\* the steps before the health checks: all succeed, or one fails and the
\* script exits
SetupSucceeds ==
  /\ deploy.pc = "setup"
  /\ deploy' = [deploy EXCEPT !.pc = "wait"]
  /\ UNCHANGED <<chat, gate, editor, ruleStore, engine, dropdown>>

SetupFails ==
  /\ deploy.pc = "setup"
  /\ deploy' = [deploy EXCEPT !.pc = "exited", !.status = Some(1)]
  /\ UNCHANGED <<chat, gate, editor, ruleStore, engine, dropdown>>

\* one round of the loop of wait_for_http_200, with what follows it when
\* the function returns: curl reads code ("000" when curl fails); 200
\* logs health OK and returns 0; otherwise the round sleeps, and after
\* the last round the function logs the failure and returns 1
wait_for_http_200(code) ==
  /\ deploy.pc = "wait"
  /\ deploy.i < HealthTries
  /\ \E d \in {[deploy EXCEPT !.i = @ + 1, !.code = Some(code)]} :
       deploy' =
         IF code = "200"
           THEN AfterWait([d EXCEPT !.ok = @ \cup {d.check}], 0)
         ELSE IF d.i = HealthTries
           THEN AfterWait([d EXCEPT !.failed = @ \cup {d.check}], 1)
         ELSE d
  /\ UNCHANGED <<chat, gate, editor, ruleStore, engine, dropdown>>

\* the end of the script: tmux ls, then the log of Deploy complete
DeployCompletes ==
  /\ deploy.pc = "tail"
  /\ deploy' = [deploy EXCEPT !.pc = "exited", !.complete = TRUE,
                              !.status = Some(0)]
  /\ UNCHANGED <<chat, gate, editor, ruleStore, engine, dropdown>>

TmuxLsFails ==
  /\ deploy.pc = "tail"
  /\ deploy' = [deploy EXCEPT !.pc = "exited", !.status = Some(1)]
  /\ UNCHANGED <<chat, gate, editor, ruleStore, engine, dropdown>>

\* ---------------------------------------------------- invoice construction
\* the product and the sum of two numbers that are not NaN, as fractions
\* in lowest terms
RECURSIVE GCD(_, _)
GCD(m, n) == IF n = 0 THEN m ELSE GCD(n, m % n)

Fraction(num, den) == JsNumber(num \div GCD(num, den), den \div GCD(num, den))

Times(a, b) == Fraction(a.num * b.num, a.den * b.den)
Plus(a, b) == Fraction(a.num * b.den + b.num * a.den, a.den * b.den)

\* a product slot of a record counts if its product is present and not
\* empty (product is None for a field that is absent or null)
Populated(slot) == slot.product # None /\ slot.product # Some(<<>>)

\* the line item of a populated slot
LineItem_Truncating(slot) ==
  [product_code |-> slot.product[1],
   quantity |-> Number(slot.quantity),
   unit_price |-> Number(slot.price),
   line_total |->
     JsNumber(Times(Number(slot.quantity), Number(slot.price)).num
                \div Times(Number(slot.quantity), Number(slot.price)).den,
              1)]

LineItem(slot) ==
  [product_code |-> slot.product[1],
   quantity |-> Number(slot.quantity),
   unit_price |-> Number(slot.price),
   line_total |-> Times(Number(slot.quantity), Number(slot.price))]

RECURSIVE SumTotals(_)
SumTotals(items) ==
  IF items = <<>> THEN JsNumber(0, 1)
  ELSE Plus(Head(items).line_total, SumTotals(Tail(items)))

\* the line items and the amounts of build(record, rules), steps (d) and
\* (e): the quantity and the price of a populated slot must be numbers,
\* and the tax is the subtotal times the rate of the rules
Invoice(line_items, rate) ==
  [error |-> None,
   line_items |-> line_items,
   subtotal |-> SumTotals(line_items),
   tax_amount |-> Times(SumTotals(line_items), rate),
   total |-> Plus(SumTotals(line_items), Times(SumTotals(line_items), rate))]

build(record, rules) ==
  IF \E i \in 1..Len(record.slots) :
       /\ Populated(record.slots[i])
       /\ Number(record.slots[i].quantity).nan
            \/ Number(record.slots[i].price).nan
    THEN [error |-> Some("InvalidRecordError"), line_items |-> <<>>,
          subtotal |-> NaN, tax_amount |-> NaN, total |-> NaN]
    ELSE Invoice([i \in 1..Len(SelectSeq(record.slots, Populated)) |->
                    LineItem(SelectSeq(record.slots, Populated)[i])],
                 Number(rules.salesTaxRate._default.text))

Build ==
  /\ engine.kind = "build"
  /\ engine.result = None
  /\ engine' = [engine EXCEPT !.result = Some(build(engine.input, engine.rule))]
  /\ UNCHANGED <<chat, gate, editor, ruleStore, dropdown, deploy>>

Resolve ==
  /\ engine.kind = "resolve"
  /\ engine.result = None
  /\ engine' = [engine EXCEPT !.result = Some(resolve(engine.rule, engine.input))]
  /\ UNCHANGED <<chat, gate, editor, ruleStore, dropdown, deploy>>

\* ------------------------------------------------------------ rule store
\* The rule sets of the store: two rules, each with its default, stand
\* for the set.
RuleSets ==
  {[customerCountry |-> [_default |-> JsString(c)],
    deliveryDays |-> [_default |-> JsNumber(d, 1)]] :
     c \in {<<"U", "K">>, <<"F", "R">>}, d \in {5, 7}}

\* a rules payload the store accepts: an object that is a rule set (a
\* payload that is not one stands for the malformed ones)
ValidRules(payload) == payload \in RuleSets

\* the body of a PUT, or the rules a mutation proposes
RulesPayloads == RuleSets \cup {JsString(<<"x">>)}

\* changes: one RuleChange {path, before, after} for each rule on which
\* the rule sets differ
Changes(before, after) ==
  [i \in 1..Len(SelectSeq(<<"customerCountry", "deliveryDays">>,
                          LAMBDA path : before[path] # after[path])) |->
     [path |-> SelectSeq(<<"customerCountry", "deliveryDays">>,
                         LAMBDA path : before[path] # after[path])[i],
      before |-> before[SelectSeq(<<"customerCountry", "deliveryDays">>,
                         LAMBDA path : before[path] # after[path])[i]],
      after |-> after[SelectSeq(<<"customerCountry", "deliveryDays">>,
                         LAMBDA path : before[path] # after[path])[i]]]]

\* The calls of the API client about the rules.  given is the apply
\* argument of the caller (None when there is none), apply the field of
\* the body, rules the body of a PUT.
getRules ==
  [call |-> "getRules", method |-> "GET", path |-> "/rules",
   given |-> None, apply |-> FALSE, rules |-> None]

updateRules(payload) ==
  [call |-> "updateRules", method |-> "PUT", path |-> "/rules",
   given |-> None, apply |-> FALSE, rules |-> Some(payload)]

previewRulesAIUpdate_Applying(instruction) ==
  [call |-> "previewRulesAIUpdate", method |-> "POST",
   path |-> "/rules/ai/update", given |-> None, apply |-> TRUE,
   rules |-> None]

previewRulesAIUpdate(instruction) ==
  [call |-> "previewRulesAIUpdate", method |-> "POST",
   path |-> "/rules/ai/update", given |-> None, apply |-> FALSE,
   rules |-> None]

applyRulesAIUpdate_Preview(instruction) ==
  [call |-> "applyRulesAIUpdate", method |-> "POST",
   path |-> "/rules/ai/update", given |-> None, apply |-> FALSE,
   rules |-> None]

applyRulesAIUpdate(instruction) ==
  [call |-> "applyRulesAIUpdate", method |-> "POST",
   path |-> "/rules/ai/update", given |-> None, apply |-> TRUE,
   rules |-> None]

askRulesCopilot(msgs, apply) ==
  [call |-> "askRulesCopilot", method |-> "POST",
   path |-> "/rules/ai/copilot", given |-> apply,
   apply |-> IF apply = None THEN FALSE ELSE apply[1], rules |-> None]

\* The server: GET returns the rules, PUT replaces them by a valid body,
\* and a mutation answers with the rules it proposes and the changes they
\* make (outcome is None for an answer without a proposal) and replaces
\* the rules by them if apply is true.  A write that is not valid is
\* refused whole.
ServeRules_Reapplying(rules, req, outcome) ==
  IF req.method = "GET" \/ outcome = None \/ ~req.apply
    THEN [rules |-> rules, applied |-> FALSE, updated_rules |-> None,
          changes |-> <<>>]
  ELSE [rules |-> IF rules = outcome[1]
                    THEN CHOOSE r \in RuleSets : r # rules
                    ELSE outcome[1],
        applied |-> TRUE, updated_rules |-> outcome,
        changes |-> Changes(rules, outcome[1])]

ServeRules(rules, req, outcome) ==
  IF req.method = "GET"
    THEN [rules |-> rules, applied |-> FALSE, updated_rules |-> None,
          changes |-> <<>>]
  ELSE IF req.method = "PUT"
    THEN [rules |-> IF ValidRules(req.rules[1]) THEN req.rules[1] ELSE rules,
          applied |-> FALSE, updated_rules |-> None, changes |-> <<>>]
  ELSE IF outcome = None \/ ~ValidRules(outcome[1])
    THEN [rules |-> rules, applied |-> FALSE, updated_rules |-> None,
          changes |-> <<>>]
  ELSE [rules |-> IF req.apply THEN outcome[1] ELSE rules,
        applied |-> req.apply, updated_rules |-> outcome,
        changes |-> Changes(rules, outcome[1])]

\* the store, the requests that wait for the server, and the response
\* the client received last, with the request it answers
RuleStore(rules) == [rules |-> rules, requests |-> <<>>, response |-> None]

RuleStoreAtRest ==
  RuleStore([customerCountry |-> [_default |-> JsString(<<"U", "K">>)],
             deliveryDays |-> [_default |-> JsNumber(7, 1)]])

\* a page calls the API client
CallRules(req) ==
  /\ Len(ruleStore.requests) < MaxInFlight
  /\ ruleStore' = [ruleStore EXCEPT !.requests = Append(@, req)]
  /\ UNCHANGED <<chat, gate, editor, engine, dropdown, deploy>>

\* the server serves one of the waiting requests
RulesServed(i, outcome) ==
  /\ i \in 1..Len(ruleStore.requests)
  /\ \E served \in {ServeRules(ruleStore.rules, ruleStore.requests[i],
                                outcome)} :
       ruleStore' =
         [rules |-> served.rules,
          requests |-> [j \in 1..(Len(ruleStore.requests) - 1) |->
                          ruleStore.requests[IF j < i THEN j ELSE j + 1]],
          response |-> Some([request |-> ruleStore.requests[i],
                             rules |-> served.rules,
                             applied |-> served.applied,
                             updated_rules |-> served.updated_rules,
                             changes |-> served.changes])]
  /\ UNCHANGED <<chat, gate, editor, engine, dropdown, deploy>>

\* ------------------------------------------------------------ chat session
UserMessage(content) == [role |-> "user", content |-> content]
AssistantMessage(content) == [role |-> "assistant", content |-> content]

\* what the user can type into the input
Inputs == { <<" ">>, <<" ", "h", "i", " ">> }

\* Error.message of the failures the platform raises
NetworkErrorMessage == <<"network error">>
NullTypeMessage == <<"Cannot read properties of null (reading 'type')">>
NoReaderMessage == <<"Streaming response not available">>
DefaultErrorMessage == <<"Chat request failed">>
GenericStreamMessage == <<"Failed to stream chat response">>

\* statusText and body.detail of a response that is not OK
StatusTexts == { <<"Bad Gateway">> }
Details == { <<>>, <<"Chat is locked">> }

\* event.error || "Chat request failed": error is falsy when absent or
\* empty
ErrorEventMessage_IgnoreText(text) == DefaultErrorMessage

ErrorEventMessage(text) == IF text # <<>> THEN text ELSE DefaultErrorMessage

\* body.detail || response.statusText, the message streamTransformerChat
\* throws for a response that is not OK
HttpErrorDetail_StatusOnly(statusText, detail) == statusText

HttpErrorDetail(statusText, detail) ==
  IF detail # <<>> THEN detail ELSE statusText

\* streamError instanceof Error ? streamError.message : "Failed to ..."
CatchMessage(isError, message) ==
  IF isError THEN message ELSE GenericStreamMessage

\* `Error: ${message}`
ErrorMarker(message) == <<"Error: ">> \o message

\* A handleSend invocation.  pc is the await it is suspended at ("done"
\* once it has returned); assistantIndex, buffer and the decoder are its
\* locals; wire is what the server has written into the response body and
\* the reader has not yet delivered.  The other fields record what
\* happened, for the properties: expected is the chunk contents the server
\* wrote in event frames, beforeError those it wrote before its first
\* error event, malformed whether it wrote a malformed frame, firstError
\* the error text of the first error event it wrote, dangling whether it
\* ended the body with a frame that lacks its blank line, response
\* the statusText and detail of a response that was not OK, applied the
\* chunk contents of the events the loop processed, sawDone whether it
\* processed a done event, failure how the call failed.
NewCall(prompt, index) ==
  [pc |-> "fetch", prompt |-> prompt, assistantIndex |-> index,
   buffer |-> <<>>, pending |-> FALSE, wire |-> <<>>,
   expected |-> <<>>, beforeError |-> <<>>, malformed |-> FALSE,
   firstError |-> None, dangling |-> FALSE,
   response |-> None, applied |-> <<>>,
   failure |-> "none", sawDone |-> FALSE]

\* the call once it has returned: its locals and its connection are gone
Finished(c, failure) ==
  [c EXCEPT !.pc = "done", !.buffer = <<>>, !.pending = FALSE,
            !.wire = <<>>, !.failure = failure]

\* calls holds the invocations that are running and, until the next send,
\* those that have returned
Running(cs) == SelectSeq(cs, LAMBDA c : c.pc # "done")

\* the page a browser without a stored history shows once it is mounted
Init ==
  /\ messages = <<>>
  /\ input = <<>>
  /\ busy = FALSE
  /\ error = None
  /\ calls = <<>>
  /\ nSends = 0
  /\ nFrames = 0
  /\ storage = setItem(None, JsonStringify(SliceLast(<<>>, HistoryCap)))
  /\ pendingLoad = None
  /\ gate = GateAtRest
  /\ editor = EditorAtRest
  /\ ruleStore = RuleStoreAtRest
  /\ engine = EngineAtRest
  /\ dropdown = DropdownAtRest
  /\ deploy = DeployAtRest

\* useMemo(() => !busy && input.trim().length > 0, [busy, input])
canSend == ~busy /\ Len(Trim(input)) > 0

\* the state setters of useState
setBusy_Never(v) == busy' = FALSE

setBusy(v) == busy' = v

setError_KeepOld(v) == error' = IF v = None THEN error ELSE v

setError(v) == error' = v

setInput(v) == input' = v

\* the index the send remembers for its placeholder
PlaceholderIndex_OffByOne(current) == Len(current)

PlaceholderIndex(current) == Len(current) + 1

HandleSend_NoBlankCheck ==
  /\ setBusy(TRUE)
  /\ setError(None)
  /\ messages' = messages \o
       <<UserMessage(Trim(input)), AssistantMessage(<<>>)>>
  /\ setInput(<<>>)
  /\ calls' = Append(Running(calls),
                     NewCall(Trim(input), PlaceholderIndex(messages)))
  /\ nSends' = nSends + 1
  /\ PersistEffect
  /\ UNCHANGED <<nFrames, pendingLoad, site>>

\* handleSend up to its first await
HandleSend ==
  LET prompt == Trim(input)
  IN  IF prompt = <<>>
        THEN UNCHANGED vars
        ELSE /\ setBusy(TRUE)
             /\ setError(None)
             /\ messages' = messages \o
                  <<UserMessage(prompt), AssistantMessage(<<>>)>>
             /\ setInput(<<>>)
             /\ calls' = Append(Running(calls),
                                NewCall(prompt, PlaceholderIndex(messages)))
             /\ nSends' = nSends + 1
             /\ PersistEffect
             /\ UNCHANGED <<nFrames, pendingLoad, site>>

\* onChange of the input, which is disabled while busy
ChangeInput(v) ==
  /\ ~busy
  /\ setInput(v)
  /\ UNCHANGED <<messages, busy, error, calls, nSends, nFrames,
                 storage, pendingLoad, site>>

\* handleSend called while the input is blank and no call is running.
\* The button and the key handler call it only when canSend holds; its
\* own check of the prompt answers a call that reaches it otherwise.
HandleSendOnBlank ==
  /\ Trim(input) = <<>>
  /\ ~busy
  /\ nSends < MaxSends
  /\ HandleSend

\* onClick of the send button, which is disabled unless canSend
ClickSend ==
  /\ canSend
  /\ nSends < MaxSends
  /\ HandleSend

\* handleInputKeyDown
HandleInputKeyDown(key) ==
  /\ nSends < MaxSends
  /\ IF key # "Enter" THEN UNCHANGED vars
     ELSE IF ~canSend THEN UNCHANGED vars
     ELSE HandleSend


\* ------------------------------------------------------- stream consumer
\* the updater of a chunk event: append to messages[assistantIndex]
ChunkUpdater_Replace(current, index, chunk) ==
  IF index < 0 \/ index + 1 > Len(current) THEN current
  ELSE [current EXCEPT ![index + 1].content = chunk]

ChunkUpdater_UserMessage(current, index, chunk) ==
  IF index < 1 \/ index + 1 > Len(current) THEN current
  ELSE [current EXCEPT ![index].content = @ \o chunk]

ChunkUpdater(current, index, chunk) ==
  IF index < 0 \/ index + 1 > Len(current) THEN current
  ELSE [current EXCEPT ![index + 1].content = @ \o chunk]

\* the updater of the catch block: mark a placeholder that is still empty
CatchUpdater_Always(current, index, message) ==
  IF index >= 0 /\ index + 1 <= Len(current)
    THEN [current EXCEPT ![index + 1].content = ErrorMarker(message)]
    ELSE current

CatchUpdater_Recreating(current, index, message) ==
  IF index >= 0 /\ index + 1 <= Len(current)
    THEN IF current[index + 1].content = <<>>
           THEN [current EXCEPT ![index + 1].content = ErrorMarker(message)]
           ELSE current
    ELSE Append(current, AssistantMessage(ErrorMarker(message)))

CatchUpdater(current, index, message) ==
  IF /\ index >= 0
     /\ index + 1 <= Len(current)
     /\ current[index + 1].content = <<>>
    THEN [current EXCEPT ![index + 1].content = ErrorMarker(message)]
    ELSE current

\* rawEvent.split("\n").map(trim).find(startsWith("data:")), None when no
\* line qualifies
RECURSIVE FindDataLine(_)
FindDataLine(lines) ==
  IF lines = <<>> THEN None
  ELSE IF StartsWith(Trim(Head(lines)), DataPrefix)
    THEN Some(Trim(Head(lines)))
  ELSE FindDataLine(Tail(lines))

\* The body of the for loop for one raw event, in its four steps: what it
\* does to the history (op) and what it throws.
\*   skip  : one of the three continue statements
\*   chunk : the chunk updater is queued
\*   none  : an event the loop has no branch for
\*   throw : the error event's throw, or the TypeError of reading .type of
\*           null
HandleEvent_StrictTypes(event) ==
  IF event.thrown THEN [op |-> "skip", text |-> <<>>]
  ELSE IF event.isNull
    THEN [op |-> "throw", text |-> NullTypeMessage, failure |-> "type_error"]
  ELSE IF event.type = "chunk" THEN [op |-> "chunk", text |-> event.text]
  ELSE [op |-> "throw", text |-> ErrorEventMessage(event.text),
        failure |-> "error_event"]

HandleEvent(event) ==
  IF event.thrown THEN [op |-> "skip", text |-> <<>>]
  ELSE IF event.isNull
    THEN [op |-> "throw", text |-> NullTypeMessage, failure |-> "type_error"]
  ELSE IF event.type = "chunk" THEN [op |-> "chunk", text |-> event.text]
  ELSE IF event.type = "error"
    THEN [op |-> "throw", text |-> ErrorEventMessage(event.text),
          failure |-> "error_event"]
  ELSE [op |-> "none", text |-> <<>>, type |-> event.type]

HandlePayload(payloadText) ==
  IF payloadText = <<>> THEN [op |-> "skip", text |-> <<>>]
  ELSE HandleEvent(JsonParse(payloadText))

HandleDataLine(dataLine) ==
  IF dataLine = None THEN [op |-> "skip", text |-> <<>>]
  ELSE HandlePayload(Trim(SubSeq(dataLine[1], Len(DataPrefix) + 1,
                                 Len(dataLine[1]))))

HandleRawEvent(rawEvent) ==
  HandleDataLine(FindDataLine(Split(rawEvent, <<NL>>)))

\* The for loop over the complete frames of one read.  st carries the
\* history as the queued updaters leave it, the chunk contents processed,
\* and the error thrown (which ends the loop).
RECURSIVE ProcessEvents(_, _, _)

ProcessEvent_Continuing(h, events, index, st) ==
  CASE h.op = "throw" ->
         ProcessEvents(events, index,
           [st EXCEPT !.thrown = Some(h.text), !.failure = h.failure])
    [] h.op = "chunk" ->
         ProcessEvents(events, index,
           [st EXCEPT !.msgs = ChunkUpdater(@, index, h.text),
                      !.applied = @ \o h.text])
    [] OTHER -> ProcessEvents(events, index, st)

ProcessEvent(h, events, index, st) ==
  CASE h.op = "throw" ->
         [st EXCEPT !.thrown = Some(h.text), !.failure = h.failure]
    [] h.op = "chunk" ->
         ProcessEvents(events, index,
           [st EXCEPT !.msgs = ChunkUpdater(@, index, h.text),
                      !.applied = @ \o h.text])
    [] h.op = "none" ->
         ProcessEvents(events, index,
           [st EXCEPT !.sawDone = @ \/ h.type = "done"])
    [] OTHER -> ProcessEvents(events, index, st)

ProcessEvents(events, index, st) ==
  IF events = <<>> THEN st
  ELSE ProcessEvent(HandleRawEvent(Head(events)), Tail(events), index, st)

\* buffer.split("\n\n") and events.pop(): the complete frames and the
\* remainder kept for the next read
FramesOf_KeepNothing(buf) ==
  [events |-> Split(buf, <<NL, NL>>), rest |-> <<>>]

PopLast(parts) ==
  [events |-> SubSeq(parts, 1, Len(parts) - 1), rest |-> parts[Len(parts)]]

FramesOf(buf) == PopLast(Split(buf, <<NL, NL>>))

\* catch (streamError) { ... } finally { setBusy(false) }
CatchAndFinally_Retry(i, msgs, thrown, failure, applied, sawDone) ==
  /\ setError(Some(CatchMessage(TRUE, thrown)))
  /\ messages' = msgs
  /\ calls' = [calls EXCEPT ![i] =
                 [NewCall(@.prompt, @.assistantIndex) EXCEPT
                    !.applied = applied]]
  /\ UNCHANGED <<input, busy, nSends, nFrames, storage, pendingLoad, site>>

CatchAndFinally(i, msgs, thrown, failure, applied, sawDone) ==
  /\ setError(Some(CatchMessage(TRUE, thrown)))
  /\ messages' = CatchUpdater(msgs, calls[i].assistantIndex,
                              CatchMessage(TRUE, thrown))
  /\ setBusy(FALSE)
  /\ calls' = [calls EXCEPT ![i] =
                 Finished([@ EXCEPT !.applied = applied,
                                    !.sawDone = sawDone], failure)]
  /\ PersistEffect
  /\ UNCHANGED <<input, nSends, nFrames, pendingLoad, site>>

\* ------------------------------------------------------------- the server
\* fetch resolves with an OK response that has a body
RespondOk(i) ==
  /\ calls[i].pc = "fetch"
  /\ calls' = [calls EXCEPT ![i].pc = "read"]
  /\ UNCHANGED <<messages, input, busy, error, nSends, nFrames,
                 storage, pendingLoad, site>>

\* fetch resolves with a response that is not OK: streamTransformerChat
\* throws new Error(body.detail || response.statusText)
RespondNotOk(i, statusText, detail) ==
  /\ calls[i].pc = "fetch"
  /\ setError(Some(CatchMessage(TRUE, HttpErrorDetail(statusText, detail))))
  /\ messages' = CatchUpdater(messages, calls[i].assistantIndex,
                    CatchMessage(TRUE, HttpErrorDetail(statusText, detail)))
  /\ setBusy(FALSE)
  /\ calls' = [calls EXCEPT ![i] =
       Finished([@ EXCEPT !.response = Some(<<statusText, detail>>)],
                "http")]
  /\ PersistEffect
  /\ UNCHANGED <<input, nSends, nFrames, pendingLoad, site>>

\* fetch resolves with an OK response without a body: response.body is
\* null and handleSend throws
RespondNoBody(i) ==
  /\ calls[i].pc = "fetch"
  /\ CatchAndFinally(i, messages, NoReaderMessage, "no_body", <<>>, FALSE)

\* fetch rejects
FetchFails(i) ==
  /\ calls[i].pc = "fetch"
  /\ CatchAndFinally(i, messages, NetworkErrorMessage, "network", <<>>, FALSE)

\* the server writes one more frame into the response body
ServerSend(i, f) ==
  /\ calls[i].pc = "read"
  /\ ~calls[i].dangling
  /\ nFrames < MaxFrames
  /\ nFrames' = nFrames + 1
  /\ calls' = [calls EXCEPT
       ![i].wire = @ \o FrameBytes(f),
       ![i].expected = IF f.kind = "event" /\ f.type = "chunk"
                         THEN @ \o f.text ELSE @,
       ![i].beforeError = IF /\ f.kind = "event" /\ f.type = "chunk"
                             /\ calls[i].firstError = None
                            THEN @ \o f.text ELSE @,
       ![i].malformed = @ \/ f.kind # "event",
       ![i].firstError = IF @ = None /\ f.kind = "event" /\ f.type = "error"
                           THEN Some(f.text) ELSE @]
  /\ UNCHANGED <<messages, input, busy, error, nSends,
                 storage, pendingLoad, site>>

\* the server writes a last frame and ends the body before the blank
\* line that terminates the frame: cut is the number of line feeds missing
ServerSendUnterminated(i, f, cut) ==
  /\ calls[i].pc = "read"
  /\ ~calls[i].dangling
  /\ nFrames < MaxFrames
  /\ nFrames' = nFrames + 1
  /\ calls' = [calls EXCEPT
       ![i].wire = @ \o SubSeq(FrameBytes(f), 1, Len(FrameBytes(f)) - cut),
       ![i].malformed = TRUE,
       ![i].dangling = TRUE]
  /\ UNCHANGED <<messages, input, busy, error, nSends,
                 storage, pendingLoad, site>>

\* ---------------------------------------------------- the reading loop
\* reader.read() resolves with the next k bytes: one pass through the body
\* of the while loop, and through catch and finally when the for loop
\* throws
Read(i, k) ==
  /\ calls[i].pc = "read"
  /\ k \in 1..Len(calls[i].wire)
  /\ \E d \in {DecodeStream(calls[i].pending, SubSeq(calls[i].wire, 1, k))} :
     \E fr \in {FramesOf(calls[i].buffer \o d.text)} :
     \E r \in {ProcessEvents(fr.events, calls[i].assistantIndex,
                 [msgs |-> messages, applied |-> calls[i].applied,
                  thrown |-> None, failure |-> "none",
                  sawDone |-> calls[i].sawDone])} :
       IF r.thrown = None
         THEN /\ messages' = r.msgs
              /\ calls' = [calls EXCEPT
                   ![i].wire = SubSeq(@, k + 1, Len(@)),
                   ![i].buffer = fr.rest,
                   ![i].pending = d.pending,
                   ![i].applied = r.applied,
                   ![i].sawDone = r.sawDone]
              /\ PersistEffect
              /\ UNCHANGED <<input, busy, error, nSends, nFrames,
                             pendingLoad, site>>
         ELSE CatchAndFinally(i, r.msgs, r.thrown[1], r.failure,
                              r.applied, r.sawDone)

\* the server has ended the body and everything written was delivered:
\* reader.read() resolves with done: break, then finally
ReadDone_NoFinally(i) ==
  /\ calls[i].pc = "read"
  /\ calls[i].wire = <<>>
  /\ calls' = [calls EXCEPT ![i] = Finished(@, "none")]
  /\ UNCHANGED <<messages, input, busy, error, nSends, nFrames,
                 storage, pendingLoad, site>>

ReadDone_Flushing(i) ==
  /\ calls[i].pc = "read"
  /\ calls[i].wire = <<>>
  /\ \E r \in {ProcessEvents(<<calls[i].buffer>>, calls[i].assistantIndex,
                 [msgs |-> messages, applied |-> calls[i].applied,
                  thrown |-> None, failure |-> "none",
                  sawDone |-> calls[i].sawDone])} :
       IF r.thrown = None
         THEN /\ messages' = r.msgs
              /\ setBusy(FALSE)
              /\ calls' = [calls EXCEPT ![i] =
                   Finished([@ EXCEPT !.applied = r.applied], "none")]
              /\ PersistEffect
              /\ UNCHANGED <<input, error, nSends, nFrames,
                             pendingLoad, site>>
         ELSE CatchAndFinally(i, r.msgs, r.thrown[1], r.failure,
                              r.applied, r.sawDone)

ReadDone(i) ==
  /\ calls[i].pc = "read"
  /\ calls[i].wire = <<>>
  /\ setBusy(FALSE)
  /\ calls' = [calls EXCEPT ![i] = Finished(@, "none")]
  /\ UNCHANGED <<messages, input, error, nSends, nFrames,
                 storage, pendingLoad, site>>

\* reader.read() rejects: the connection dropped
ReadFails(i) ==
  /\ calls[i].pc = "read"
  /\ CatchAndFinally(i, messages, NetworkErrorMessage, "network",
                     calls[i].applied, calls[i].sawDone)

\* handleClearHistory: removeItem, then the render of the new empty
\* array runs the persistence effect
HandleClearHistory ==
  /\ messages' = <<>>
  /\ setError(None)
  /\ storage' = setItem(removeItem(storage),
                        JsonStringify(SliceLast(messages', HistoryCap)))
  /\ UNCHANGED <<input, busy, calls, nSends, nFrames, pendingLoad, site>>

\* The page: every handler, every outcome of the request, and the response
\* body delivered as the server wrote it (one read returns all that is
\* waiting).
Next ==
  \/ \E v \in Inputs : ChangeInput(v)
  \/ ClickSend
  \/ HandleSendOnBlank
  \/ \E key \in {"Enter", "a"} : HandleInputKeyDown(key)
  \/ HandleClearHistory
  \/ \E i \in 1..Len(calls) : RespondOk(i)
  \/ \E i \in 1..Len(calls), s \in StatusTexts, d \in Details :
       RespondNotOk(i, s, d)
  \/ \E i \in 1..Len(calls) : RespondNoBody(i)
  \/ \E i \in 1..Len(calls) : FetchFails(i)
  \/ \E i \in 1..Len(calls), f \in Frames : ServerSend(i, f)
  \/ \E i \in 1..Len(calls) : Read(i, Len(calls[i].wire))
  \/ \E i \in 1..Len(calls) : ReadDone(i)
  \/ \E i \in 1..Len(calls) : ReadFails(i)

Spec == Init /\ [][Next]_vars

\* One exchange, with the response body delivered in every possible way:
\* a read returns any non-empty prefix of what is waiting.
UnterminatedFrames ==
  { [kind |-> "event", type |-> "chunk", text |-> <<"a">>],
    [kind |-> "event", type |-> "error", text |-> <<"x">>] }

TypePrompt ==
  /\ nSends = 0
  /\ ChangeInput(<<" ", "h", "i", " ">>)

SendOnce ==
  /\ nSends = 0
  /\ canSend
  /\ HandleSend

StreamNext ==
  \/ TypePrompt
  \/ SendOnce
  \/ \E i \in 1..Len(calls) : RespondOk(i)
  \/ \E i \in 1..Len(calls), f \in Frames : ServerSend(i, f)
  \/ \E i \in 1..Len(calls), f \in UnterminatedFrames, cut \in {1, 2} :
       ServerSendUnterminated(i, f, cut)
  \/ \E i \in 1..Len(calls) : \E k \in 1..Len(calls[i].wire) : Read(i, k)
  \/ \E i \in 1..Len(calls) : ReadDone(i)
  \/ \E i \in 1..Len(calls) : ReadFails(i)

StreamSpec == Init /\ [][StreamNext]_vars

\* ------------------------------------------------------------- properties
CallIds == 1..Len(calls)

\* the assistant placeholder of a call, when the history still holds it
PlaceholderPresent(c) == c.assistantIndex + 1 \in 1..Len(messages)
Placeholder(c) == messages[c.assistantIndex + 1]

\* a step in which call i ends in catch
FailureStep(i) ==
  /\ i \in 1..Len(calls')
  /\ calls[i].pc # "done"
  /\ calls'[i].pc = "done"
  /\ calls'[i].failure # "none"

\* a step in which handleSend passes its blank-prompt check
SendStep == nSends' = nSends + 1

\* C1: at most one handleSend is between its send and its finally at any
\* time, and busy is true exactly while one is; no sequence of clicks and
\* Enter presses starts a second one.
C1_OneRequestInFlight ==
  /\ Len(Running(calls)) <= 1
  /\ busy <=> Len(Running(calls)) = 1

\* a second exchange is being read while busy, after the first has returned
C1_Witness ==
  /\ nSends = 2
  /\ busy
  /\ Len(Running(calls)) = 1
  /\ \E i \in CallIds : calls[i].pc = "read" /\ calls[i].wire # <<>>

\* C2: for a stream of well-formed event frames that ends without an error,
\* whenever everything written has been delivered - in whatever pieces -
\* the placeholder holds the concatenation of the chunk contents written,
\* nothing is left in the buffer, and the content at the end is that
\* concatenation.
C2_ReassemblyIndependentOfSplits ==
  \A i \in CallIds :
    LET c == calls[i]
    IN  /\ (c.pc = "read" /\ ~c.malformed /\ c.wire = <<>>) =>
             /\ c.buffer = <<>>
             /\ ~c.pending
             /\ PlaceholderPresent(c)
             /\ Placeholder(c).content = c.expected
        /\ (c.pc = "done" /\ ~c.malformed /\ c.failure = "none") =>
             /\ PlaceholderPresent(c)
             /\ Placeholder(c).content = c.expected

\* a read has ended between the two bytes of a character of the second
\* chunk frame, after the first chunk was appended
C2_Witness ==
  \E i \in CallIds :
    /\ calls[i].pc = "read"
    /\ ~calls[i].malformed
    /\ calls[i].pending
    /\ calls[i].buffer # <<>>
    /\ calls[i].expected = <<"a", EAcute>>
    /\ Placeholder(calls[i]).content = <<"a">>

\* C3 as stated: every chunk event processed is appended to the
\* placeholder, so that the placeholder holds the contents of the chunk
\* events processed so far, in order.
C3_EveryChunkAppended ==
  [][\A i \in CallIds :
       (i \in 1..Len(calls') /\ calls'[i].applied # calls[i].applied) =>
         /\ calls'[i].assistantIndex + 1 \in 1..Len(messages')
         /\ messages'[calls'[i].assistantIndex + 1].content
              = calls'[i].applied]_vars

\* C3 amended: while the placeholder is in the history and the call has not
\* failed, the placeholder is an assistant message whose content is the
\* contents of the chunk events processed so far, in arrival order.
C3_ChunksAppendedWhilePresent ==
  \A i \in CallIds :
    (calls[i].failure = "none" /\ PlaceholderPresent(calls[i])) =>
      /\ Placeholder(calls[i]).role = "assistant"
      /\ Placeholder(calls[i]).content = calls[i].applied

\* two chunk events have been appended, in the order they arrived
C3_Witness ==
  \E i \in CallIds :
    /\ calls[i].failure = "none"
    /\ calls[i].applied = <<"a", EAcute>>
    /\ PlaceholderPresent(calls[i])
    /\ Placeholder(calls[i]).content = <<"a", EAcute>>

\* C4: a send with a non-blank prompt appends to the history exactly the
\* user message with the trimmed prompt and an empty assistant message, and
\* the index the call remembers is that of the assistant message; nothing
\* of the response has been handled at that point.
C4_SendAppendsUserAndPlaceholder ==
  [][SendStep =>
       /\ Trim(input) # <<>>
       /\ messages' = messages \o
            <<UserMessage(Trim(input)), AssistantMessage(<<>>)>>
       /\ calls'[Len(calls')].assistantIndex + 1 = Len(messages')
       /\ messages'[calls'[Len(calls')].assistantIndex + 1]
            = AssistantMessage(<<>>)
       /\ calls'[Len(calls')].pc = "fetch"
       /\ calls'[Len(calls')].applied = <<>>]_vars

\* the second send has appended its pair behind the first exchange
C4_Witness ==
  /\ nSends = 2
  /\ Len(messages) = 4
  /\ \E i \in CallIds :
       /\ calls[i].pc = "fetch"
       /\ calls[i].assistantIndex = 3
       /\ messages[3] = UserMessage(<<"h", "i">>)
       /\ messages[4] = AssistantMessage(<<>>)

\* C5: after an error event arrived with the placeholder still empty, the
\* placeholder holds "Error: " followed by the message and the error field
\* holds the message, the message being the error text of the event or
\* "Chat request failed" when the event has none.
C5_ErrorEventMarksEmptyPlaceholder ==
  \A i \in CallIds :
    LET c == calls[i]
    IN  (c.pc = "done" /\ c.failure = "error_event"
           /\ PlaceholderPresent(c)) =>
          /\ c.firstError # None
          /\ \E m \in { IF c.firstError[1] # <<>> THEN c.firstError[1]
                          ELSE DefaultErrorMessage } :
               /\ error = Some(m)
               /\ c.applied = <<>> => Placeholder(c).content = <<"Error: ">> \o m

\* an error event without a text has marked an empty placeholder with the
\* default message
C5_Witness ==
  \E i \in CallIds :
    /\ calls[i].pc = "done"
    /\ calls[i].failure = "error_event"
    /\ calls[i].applied = <<>>
    /\ calls[i].firstError = Some(<<>>)
    /\ PlaceholderPresent(calls[i])
    /\ Placeholder(calls[i]).content = <<"Error: ">> \o DefaultErrorMessage
    /\ error = Some(DefaultErrorMessage)


TransportFailures == {"http", "no_body", "network"}

\* C6: the step in which a call fails changes no message other than its
\* placeholder and does not change the length of the history; when chunks
\* had been appended the placeholder holds exactly those chunks after it.
C6_FailureKeepsChunks ==
  [][\A i \in CallIds :
       FailureStep(i) =>
         /\ Len(messages') = Len(messages)
         /\ \A j \in 1..Len(messages) :
              j # calls[i].assistantIndex + 1 => messages'[j] = messages[j]
         /\ (calls'[i].applied # <<>>
               /\ calls[i].assistantIndex + 1 \in 1..Len(messages)) =>
              messages'[calls[i].assistantIndex + 1]
                = AssistantMessage(calls'[i].applied)]_vars

\* an error event or a failed read has ended the second exchange, whose
\* placeholder held a chunk, and the chunk is still there
C6_Witness ==
  \E i \in CallIds :
    /\ calls[i].pc = "done"
    /\ calls[i].failure \in {"error_event", "network"}
    /\ calls[i].applied = <<"a">>
    /\ PlaceholderPresent(calls[i])
    /\ Placeholder(calls[i]).content = <<"a">>
    /\ error # None
    /\ Len(messages) = 4

\* C7 as stated: a malformed frame never ends the exchange in catch, and a
\* stream that carried no error event and was not cut ends with every
\* chunk written in an event frame appended.
C7_MalformedFramesSkipped ==
  \A i \in CallIds :
    LET c == calls[i]
    IN  /\ c.failure # "type_error"
        /\ (c.pc = "done" /\ c.failure = "none") =>
             /\ PlaceholderPresent(c)
             /\ Placeholder(c).content = c.expected

\* C8 as stated: whatever the transport failure, the text surfaced is the
\* generic one.
C8_GenericMessageOnTransportFailure ==
  \A i \in CallIds :
    (calls[i].pc = "done" /\ calls[i].failure \in TransportFailures
       /\ PlaceholderPresent(calls[i])) =>
      error = Some(GenericStreamMessage)

\* C8 amended: after a transport failure the session is not busy and the
\* error field holds the message of the failure: body.detail, or the
\* statusText when the body has none, for a response that is not OK,
\* "Streaming response not available" for a response without a body, the
\* message of the thrown error for a failed fetch or read.
C8_TransportFailureSurfacesItsMessage ==
  \A i \in CallIds :
    LET c == calls[i]
    IN  (c.pc = "done" /\ c.failure \in TransportFailures
           /\ PlaceholderPresent(c)) =>
          /\ ~busy
          /\ c.failure = "http" =>
               /\ c.response # None
               /\ error = Some(IF c.response[1][2] # <<>>
                                 THEN c.response[1][2] ELSE c.response[1][1])
          /\ c.failure = "no_body" => error = Some(NoReaderMessage)
          /\ c.failure = "network" => error = Some(NetworkErrorMessage)

\* a response that was not OK and carried a detail has failed the exchange
C8_Witness ==
  \E i \in CallIds :
    /\ calls[i].pc = "done"
    /\ calls[i].failure = "http"
    /\ calls[i].response = Some(<<<<"Bad Gateway">>, <<"Chat is locked">>>>)
    /\ PlaceholderPresent(calls[i])
    /\ error = Some(<<"Chat is locked">>)
    /\ ~busy

\* C9 as stated: once the done event has been processed the session is
\* idle.
C9_DoneEventEndsExchange ==
  \A i \in CallIds :
    calls[i].sawDone => (calls[i].pc = "done" /\ ~busy /\ error = None)

\* C9 amended: the session stays busy as long as the body is being read,
\* done event or not, and when the body ends without a failure busy is
\* false, no error is set and a send is permitted as soon as the input is
\* not blank.
C9_EndOfBodyEndsExchange ==
  \A i \in CallIds :
    /\ calls[i].pc = "read" => busy
    /\ (calls[i].pc = "done" /\ calls[i].failure = "none") =>
         /\ ~busy
         /\ error = None
         /\ Trim(input) # <<>> => canSend

\* the body has ended after a done event and the user has typed the next
\* prompt
C9_Witness ==
  \E i \in CallIds :
    /\ calls[i].pc = "done"
    /\ calls[i].failure = "none"
    /\ calls[i].sawDone
    /\ ~busy
    /\ error = None
    /\ canSend

\* C10: the step in which a call fails leaves the session not busy with
\* the error set; the error stays set until a send or a clear; the session
\* is never busy while an error is set, so a send is accepted; and the send
\* resets the error to null as it issues its request.
C10_ErrorThenUsable ==
  [][/\ \A i \in CallIds : FailureStep(i) => (~busy' /\ error' # None)
     /\ (error # None /\ error' # error) =>
          (SendStep \/ (messages' = <<>> /\ error' = None))
     /\ error # None => (~busy /\ (Trim(input) # <<>> => canSend))
     /\ SendStep =>
          /\ error' = None
          /\ busy'
          /\ calls'[Len(calls')].pc = "fetch"]_vars

\* after a failed exchange the user has sent again and the error is reset
C10_Witness ==
  /\ nSends = 2
  /\ error = None
  /\ busy
  /\ Len(messages) = 4
  /\ messages[2].content = <<"Error: ">> \o NetworkErrorMessage
  /\ \E i \in CallIds : calls[i].pc = "fetch"

\* ------------------------------------------------------------- reloads
\* The browser reloads the page: the running handleSend invocations and
\* their connections are gone, the component is constructed anew and its
\* first render is committed with the initial state.  The effects of that
\* render run in the order they are declared: the loading effect reads
\* the item and queues setMessages, the persistence effect writes the
\* messages of the render it belongs to, which are the initial [].
MountRulesPage ==
  /\ messages' = <<>>
  /\ input' = <<>>
  /\ busy' = FALSE
  /\ error' = None
  /\ calls' = <<>>
  /\ pendingLoad' = LoadEffect(getItem(storage))
  /\ storage' = setItem(storage, JsonStringify(SliceLast(<<>>, HistoryCap)))

Reload == MountRulesPage /\ UNCHANGED <<nSends, nFrames, site>>

\* The render of the update the loading effect queued, and the
\* persistence effect of that render.
CommitLoad ==
  /\ pendingLoad # None
  /\ messages' = pendingLoad[1]
  /\ storage' = setItem(storage,
                        JsonStringify(SliceLast(messages', HistoryCap)))
  /\ pendingLoad' = None
  /\ UNCHANGED <<input, busy, error, calls, nSends, nFrames, site>>

\* What the item can hold when the page is opened: nothing, the history
\* an earlier visit left, or what something else wrote under the key.
StoredExchange(answer) ==
  <<UserMessage(<<"h", "i">>), AssistantMessage(answer)>>

FullHistory ==
  [i \in 1..HistoryCap |->
     IF i = 2 THEN AssistantMessage(<<"x">>)
     ELSE IF i % 2 = 1 THEN UserMessage(<<"h", "i">>)
     ELSE AssistantMessage(<<"a">>)]

ForeignItems ==
  << JsonOfMessage(UserMessage(<<"h", "i">>)),
     [truthy |-> FALSE, role |-> "", contentIsString |-> FALSE,
      content |-> <<>>],
     [truthy |-> TRUE, role |-> "system", contentIsString |-> TRUE,
      content |-> <<"a">>],
     [truthy |-> TRUE, role |-> "assistant", contentIsString |-> FALSE,
      content |-> <<>>],
     JsonOfMessage(AssistantMessage(<<"a">>)) >>

InitialStorage ==
  { None,
    Some(BrokenText),
    Some(ObjectText),
    Some(ArrayText(ForeignItems)),
    Some(JsonStringify(StoredExchange(<<"a">>))),
    Some(JsonStringify(FullHistory)) }

\* the history a load of the page restores from the item
Restorable(store) ==
  IF LoadEffect(getItem(store)) = None THEN <<>>
  ELSE LoadEffect(getItem(store))[1]

\* the page, mounted on one of the stored items and settled
PersistInit ==
  /\ \E raw \in InitialStorage :
       /\ messages = Restorable(raw)
       /\ storage = setItem(raw, JsonStringify(SliceLast(Restorable(raw),
                                                         HistoryCap)))
  /\ input = <<>>
  /\ busy = FALSE
  /\ error = None
  /\ calls = <<>>
  /\ nSends = 0
  /\ nFrames = 0
  /\ pendingLoad = None
  /\ gate = GateAtRest
  /\ editor = EditorAtRest
  /\ ruleStore = RuleStoreAtRest
  /\ engine = EngineAtRest
  /\ dropdown = DropdownAtRest
  /\ deploy = DeployAtRest

PersistFrames ==
  { f \in EventFrames : f.type \in {"chunk", "error"} /\ f.text # <<>> }

\* The page with reloads.  The handlers run on a page that has rendered
\* what it loaded.
PersistNext ==
  \/ Reload
  \/ CommitLoad
  \/ pendingLoad = None /\ ChangeInput(<<" ", "h", "i", " ">>)
  \/ pendingLoad = None /\ ClickSend
  \/ pendingLoad = None /\ HandleClearHistory
  \/ \E i \in 1..Len(calls) : RespondOk(i)
  \/ \E i \in 1..Len(calls) : FetchFails(i)
  \/ \E i \in 1..Len(calls), f \in PersistFrames : ServerSend(i, f)
  \/ \E i \in 1..Len(calls) : Read(i, Len(calls[i].wire))
  \/ \E i \in 1..Len(calls) : ReadDone(i)

PersistSpec == PersistInit /\ [][PersistNext]_vars

\* ------------------------------------------------------------ the layout
GateStep(next) ==
  gate' = next /\ UNCHANGED <<chat, editor, ruleStore, engine, dropdown, deploy>>

\* loadStatus of RulesNavLink: getSchemaStoreStatus resolves, or rejects
NavLoaded_AfterUnmount ==
  /\ gate.navPc = "loading"
  /\ GateStep([gate EXCEPT
                 !.canUseChat = status(gate.schema).can_use_chat,
                 !.navPc = "loaded"])

NavLoaded ==
  /\ gate.navPc = "loading"
  /\ GateStep([gate EXCEPT
                 !.canUseChat = IF gate.navCanceled THEN @
                                ELSE status(gate.schema).can_use_chat,
                 !.navPc = "loaded"])

NavLoadFails ==
  /\ gate.navPc = "loading"
  /\ GateStep([gate EXCEPT
                 !.canUseChat = IF gate.navCanceled THEN @ ELSE FALSE,
                 !.navPc = "failed"])

\* RulesNavLink is unmounted: the cleanup of its effect sets canceled
NavUnmounted ==
  /\ ~gate.navCanceled
  /\ GateStep([gate EXCEPT !.navCanceled = TRUE])

\* refreshSchema, once both requests have resolved
refreshSchema(g) ==
  [g EXCEPT !.schemaStore = g.schema, !.schemaStatus = status(g.schema)]

\* the load of the mounting effect of the schema page
SchemaLoaded ==
  /\ gate.route = "schema"
  /\ gate.loading
  /\ GateStep([refreshSchema(gate) EXCEPT !.loading = FALSE])

\* what JSON.parse makes of a text of the rules field: the kind of the
\* value, or a SyntaxError
JsonKind(t) ==
  IF t = <<"{", "}">> THEN "object"
  ELSE IF t = <<"[", "]">> THEN "array"
  ELSE IF t = JsonNull THEN "null"
  ELSE IF t # <<>> /\ \A i \in 1..Len(t) : t[i] \in DOMAIN Digit
    THEN "number"
  ELSE "SyntaxError"

\* parsedRules of handleSaveErpColumn: {} for a blank text
ParsedRulesKind(erpRulesText) ==
  IF Trim(erpRulesText) = <<>> THEN "object"
  ELSE JsonKind(Trim(erpRulesText))

\* the name a text of one letter stands for
NameOf(t) == IF t = <<>> THEN "" ELSE t[1]

\* the checks of handleSaveErpColumn before its first request: the error
\* it sets, None when it goes on
ErpFormError_Lenient(erpName, erpRulesText) == None

ErpFormError(erpName, erpRulesText) ==
  IF Trim(erpName) = <<>> THEN Some("ERP column name is required.")
  ELSE IF ParsedRulesKind(erpRulesText) # "object"
    THEN Some("ERP rules must be a valid JSON object.")
  ELSE None

\* the check of handleAddCrmColumn and handleRenameCrmColumn
CrmFormError(name) ==
  IF Trim(name) = <<>> THEN Some("CRM column name is required.") ELSE None

\* A handler of the schema page up to its first await.  Its button is
\* disabled while busy.
StartHandler(requests) ==
  /\ gate.route = "schema"
  /\ ~gate.busy
  /\ GateStep([gate EXCEPT !.busy = TRUE, !.error = None,
                           !.requests = requests])

\* a handler that returns at a check of its input
FormRejected(formError) ==
  /\ gate.route = "schema"
  /\ ~gate.busy
  /\ GateStep([gate EXCEPT !.error = formError])

\* erpOriginalName is the column startEditErp was called for, if any
HandleSaveErpColumn_DeleteFirst(erpName, erpRulesText, erpOriginalName) ==
  /\ erpOriginalName # None => erpOriginalName[1] \in gate.schemaStore.erp
  /\ gate.route = "schema"
  /\ ~gate.busy
  /\ \E trimmedName \in {NameOf(Trim(erpName))} :
       GateStep([gate EXCEPT
         !.busy = TRUE,
         !.error = None,
         !.saveErp = Some([name |-> trimmedName,
                           original |-> erpOriginalName,
                           parsedRules |-> ParsedRulesKind(erpRulesText)]),
         !.requests =
            (IF erpOriginalName # None /\ erpOriginalName[1] # trimmedName
               THEN <<deleteERPSchemaColumn(erpOriginalName[1])>>
               ELSE <<>>) \o <<upsertERPSchemaColumn(trimmedName)>>])

HandleSaveErpColumn(erpName, erpRulesText, erpOriginalName) ==
  /\ erpOriginalName # None => erpOriginalName[1] \in gate.schemaStore.erp
  /\ IF ErpFormError(erpName, erpRulesText) # None
       THEN FormRejected(ErpFormError(erpName, erpRulesText))
       ELSE /\ gate.route = "schema"
            /\ ~gate.busy
            /\ \E trimmedName \in {NameOf(Trim(erpName))} :
                 GateStep([gate EXCEPT
                   !.busy = TRUE,
                   !.error = None,
                   !.saveErp =
                      Some([name |-> trimmedName,
                            original |-> erpOriginalName,
                            parsedRules |-> ParsedRulesKind(erpRulesText)]),
                   !.requests =
                      <<upsertERPSchemaColumn(trimmedName)>> \o
                      (IF /\ erpOriginalName # None
                          /\ erpOriginalName[1] # trimmedName
                         THEN <<deleteERPSchemaColumn(erpOriginalName[1])>>
                         ELSE <<>>)])

HandleDeleteErpColumn(name) ==
  /\ name \in gate.schemaStore.erp
  /\ StartHandler(<<deleteERPSchemaColumn(name)>>)

HandleAddCrmColumn(crmColumnName) ==
  IF CrmFormError(crmColumnName) # None
    THEN FormRejected(CrmFormError(crmColumnName))
    ELSE StartHandler(<<addCRMColumn(NameOf(Trim(crmColumnName)))>>)

HandleRenameCrmColumn(crmEditingOriginal, crmEditingValue) ==
  /\ crmEditingOriginal \in gate.schemaStore.crm
  /\ IF CrmFormError(crmEditingValue) # None
       THEN FormRejected(CrmFormError(crmEditingValue))
       ELSE StartHandler(<<renameCRMColumn(crmEditingOriginal,
                                           NameOf(Trim(crmEditingValue)))>>)

HandleDeleteCrmColumn(name) ==
  /\ name \in gate.schemaStore.crm
  /\ StartHandler(<<deleteCRMColumn(name)>>)

\* the handlers of the notification emails, which follow the same course
HandleAddEmail(email) ==
  /\ email # ""
  /\ StartHandler(<<addNotificationEmail(email)>>)

HandleDeleteEmail(email) ==
  /\ email \in gate.schemaStore.emails
  /\ StartHandler(<<deleteNotificationEmail(email)>>)

\* The request the handler awaits is answered.  After the last one the
\* handler calls refreshSchema; an answer that is not OK makes request
\* throw, and the handler ends in catch and finally without a refresh.
RequestServed ==
  /\ gate.requests # <<>>
  /\ \E r \in {Serve(gate.schema, Head(gate.requests))} :
       GateStep(IF r.ok
                  THEN [gate EXCEPT !.schema = r.schema,
                                    !.requests = Tail(@),
                                    !.refreshing = Tail(gate.requests) = <<>>]
                  ELSE [gate EXCEPT !.requests = <<>>, !.busy = FALSE,
                                    !.saveErp = None,
                                    !.error = Some("request refused")])

\* the request does not reach the server
RequestFails ==
  /\ gate.requests # <<>>
  /\ GateStep([gate EXCEPT !.requests = <<>>, !.busy = FALSE,
                           !.saveErp = None,
                           !.error = Some("request failed")])

\* refreshSchema resolves and the handler runs to its end
RefreshResolved ==
  /\ gate.refreshing
  /\ GateStep([refreshSchema(gate) EXCEPT !.refreshing = FALSE,
                                          !.busy = FALSE,
                                          !.saveErp = None])

RefreshFails ==
  /\ gate.refreshing
  /\ GateStep([gate EXCEPT !.refreshing = FALSE, !.busy = FALSE,
                           !.saveErp = None,
                           !.error = Some("request failed")])

\* no handler of the schema page is running
SchemaPageIdle == gate.requests = <<>> /\ ~gate.refreshing

\* the Rules Chat page is not mounted
NoRulesPage ==
  /\ messages' = <<>>
  /\ input' = <<>>
  /\ busy' = FALSE
  /\ error' = None
  /\ calls' = <<>>
  /\ pendingLoad' = None
  /\ UNCHANGED storage

\* the route changes inside the mounted layout
Navigate(route) ==
  [gate EXCEPT !.route = route, !.loading = route = "schema",
               !.schemaStore = EmptySchema,
               !.schemaStatus = emptySchemaStatus, !.busy = FALSE,
               !.error = None]

\* the Rules Chat link of the navigation bar, rendered when canUseChat
ClickRulesNavLink ==
  /\ gate.route = "schema"
  /\ SchemaPageIdle
  /\ gate.canUseChat
  /\ gate' = Navigate("rules")
  /\ MountRulesPage
  /\ UNCHANGED <<nSends, nFrames, editor, ruleStore, engine, dropdown,
               deploy>>

\* the Go to Rules link of the schema page, rendered when
\* schemaStatus.can_use_chat
ClickGoToRules ==
  /\ gate.route = "schema"
  /\ SchemaPageIdle
  /\ gate.schemaStatus.can_use_chat
  /\ gate' = Navigate("rules")
  /\ MountRulesPage
  /\ UNCHANGED <<nSends, nFrames, editor, ruleStore, engine, dropdown,
               deploy>>

\* the Schema link of the navigation bar
ClickSchemaLink ==
  /\ gate.route = "rules"
  /\ gate' = Navigate("schema")
  /\ NoRulesPage
  /\ UNCHANGED <<nSends, nFrames, editor, ruleStore, engine, dropdown,
               deploy>>

\* the browser loads the site at the address of a page: the layout and
\* the page are constructed anew
OpenUrl(route) ==
  /\ SchemaPageIdle
  /\ gate' = Layout(gate.schema, route)
  /\ IF route = "rules" THEN MountRulesPage ELSE NoRulesPage
  /\ UNCHANGED <<nSends, nFrames, editor, ruleStore, engine, dropdown,
               deploy>>

InitialSchemas == {EmptySchema, ReadySchema}

\* the site opened at the schema page, in a browser that has no stored
\* history
GateInit ==
  /\ \E schema \in InitialSchemas : gate = Layout(schema, "schema")
  /\ messages = <<>>
  /\ input = <<>>
  /\ busy = FALSE
  /\ error = None
  /\ calls = <<>>
  /\ nSends = 0
  /\ nFrames = 0
  /\ storage = None
  /\ pendingLoad = None
  /\ editor = EditorAtRest
  /\ ruleStore = RuleStoreAtRest
  /\ engine = EngineAtRest
  /\ dropdown = DropdownAtRest
  /\ deploy = DeployAtRest

OnRulesPage == gate.route = "rules" /\ pendingLoad = None

GateNext ==
  \/ NavLoaded
  \/ NavLoadFails
  \/ SchemaLoaded
  \/ \E n \in ErpNames, o \in {None} \cup {Some(m) : m \in ErpNames} :
       HandleSaveErpColumn(<<n>>, <<"{", "}">>, o)
  \/ \E n \in ErpNames : HandleDeleteErpColumn(n)
  \/ \E n \in CrmNames : HandleAddCrmColumn(<<n>>)
  \/ \E o \in CrmNames, n \in CrmNames : HandleRenameCrmColumn(o, <<n>>)
  \/ \E n \in CrmNames : HandleDeleteCrmColumn(n)
  \/ \E e \in Emails : HandleAddEmail(e)
  \/ \E e \in Emails : HandleDeleteEmail(e)
  \/ RequestServed
  \/ RequestFails
  \/ RefreshResolved
  \/ RefreshFails
  \/ ClickRulesNavLink
  \/ ClickGoToRules
  \/ ClickSchemaLink
  \/ \E route \in {"schema", "rules"} : OpenUrl(route)
  \/ CommitLoad
  \/ OnRulesPage /\ TypePrompt
  \/ OnRulesPage /\ SendOnce
  \/ \E i \in 1..Len(calls) : FetchFails(i)

GateSpec == GateInit /\ [][GateNext]_vars

\* ------------------------------------------------ the schema page's forms
\* what the operator can leave in the name fields and in the rules field
NameTexts == {<<>>, <<" ">>, <<"a">>, <<" ", "b">>}

RulesTexts ==
  {<<>>, <<" ">>, <<"{", "}">>, <<" ", "{", "}">>, <<"[", "]">>, JsonNull,
   <<"5">>, <<"{">>}

\* the schema page in its layout, with every content of its forms
SchemaFormNext ==
  \/ NavLoaded
  \/ NavLoadFails
  \/ NavUnmounted
  \/ SchemaLoaded
  \/ \E n \in NameTexts, r \in RulesTexts,
        o \in {None} \cup {Some(m) : m \in ErpNames} :
       HandleSaveErpColumn(n, r, o)
  \/ \E n \in ErpNames : HandleDeleteErpColumn(n)
  \/ \E n \in NameTexts : HandleAddCrmColumn(n)
  \/ \E o \in CrmNames, n \in NameTexts : HandleRenameCrmColumn(o, n)
  \/ RequestServed
  \/ RequestFails
  \/ RefreshResolved
  \/ RefreshFails

SchemaFormSpec == GateInit /\ [][SchemaFormNext]_vars

\* ------------------------------------------------- the editor of a rule
\* the texts typed into the cells of the editor of a rule: the number
\* inputs of the numeric rule hold "" or a decimal literal
CellTexts(ruleType, field) ==
  IF isConfigRule(ruleType)
    THEN IF field = "key"
           THEN {<<"includeYear">>, <<"invoiceIdPadLength">>, <<"prefix">>}
           ELSE {<<"T", "r", "u", "e">>}
  ELSE IF field = "key" THEN {<<>>, <<"a">>, <<"a", " ">>}
  ELSE IF isNumericConditional(ruleType)
    THEN {<<>>, <<"7">>, <<"1", ".", "5">>}
  ELSE {<<>>, <<"x">>}

RuleTypes ==
  {"customerNameMapping", "customerReference", "deliveryDays",
   "customerCountry"}

EditorInit ==
  /\ \E ruleType \in RuleTypes : editor = RuleEditor(ruleType)
  /\ messages = <<>>
  /\ input = <<>>
  /\ busy = FALSE
  /\ error = None
  /\ calls = <<>>
  /\ nSends = 0
  /\ nFrames = 0
  /\ storage = None
  /\ pendingLoad = None
  /\ gate = GateAtRest
  /\ ruleStore = RuleStoreAtRest
  /\ engine = EngineAtRest
  /\ dropdown = DropdownAtRest
  /\ deploy = DeployAtRest

EditorNext ==
  \/ addRow
  \/ \E index \in 0..(MaxRows - 1), field \in {"key", "value"} :
       \E text \in CellTexts(editor.ruleType, field) :
         updateRow(index, field, text)
  \/ \E index \in 0..(MaxRows - 1) : removeRow(index)
  \/ \E text \in CellTexts(editor.ruleType, "value") : setDefaultValue(text)
  \/ save
  \/ onSaveResolves
  \/ onSaveRejects

EditorSpec == EditorInit /\ [][EditorNext]_vars

\* -------------------------------------------------- the editor, loaded
Entry(key, value) == [key |-> key, value |-> value]

\* rules as the page hands them to the editor
LoadedRules ==
  { [ruleType |-> "customerNameMapping", ruleData |-> Some(d)] :
           d \in { <<Entry(<<"a">>, JsString(<<"x">>))>>,
                   <<Entry(<<"a">>, JsString(<<"x">>)),
                     Entry(<<"b">>, JsString(<<"a">>))>>,
                   <<Entry(<<"a">>, JsString(<<>>))>>,
                   <<Entry(<<"a">>, JsString(<<"x", " ">>))>>,
                   <<Entry(<<"constructor">>, JsString(<<"x">>))>> } }
  \cup { [ruleType |-> "customerReference", ruleData |-> Some(d)] :
           d \in { <<Entry(<<"customerNamePrefixLength">>, JsNumber(3, 1)),
                     Entry(<<"includeYear">>, JsBoolean(b)),
                     Entry(<<"invoiceIdPrefix">>, JsString(<<"x">>))>> :
                   b \in BOOLEAN } }
  \cup { [ruleType |-> "deliveryDays", ruleData |-> Some(d)] :
           d \in { [_default |-> JsNumber(n, 1),
                    conditions |-> <<Entry(<<"a">>, v)>>] :
                   n \in {0, 5}, v \in {JsNumber(7, 1), JsNumber(15, 10),
                                        JsNumber(12, 1)} } }
  \cup { [ruleType |-> "customerCountry", ruleData |-> Some(d)] :
           d \in { [_default |-> JsString(t),
                    conditions |-> <<Entry(<<"a">>, JsString(<<"x">>))>>] :
                   t \in {<<>>, <<"x">>} } }

RoundTripInit ==
  /\ \E r \in LoadedRules : editor = Mounted(r.ruleType, r.ruleData)
  /\ messages = <<>>
  /\ input = <<>>
  /\ busy = FALSE
  /\ error = None
  /\ calls = <<>>
  /\ nSends = 0
  /\ nFrames = 0
  /\ storage = None
  /\ pendingLoad = None
  /\ gate = GateAtRest
  /\ ruleStore = RuleStoreAtRest
  /\ engine = EngineAtRest
  /\ dropdown = DropdownAtRest
  /\ deploy = DeployAtRest

RoundTripNext ==
  \/ addRow
  \/ \E index \in 0..(MaxRows - 1), field \in {"key", "value"} :
       \E text \in {<<" ">>, <<"b">>} : updateRow(index, field, text)
  \/ save
  \/ onSaveResolves
  \/ onSaveRejects

RoundTripSpec == RoundTripInit /\ [][RoundTripNext]_vars

\* ---------------------------------------------------- the rules' clients
RulesInit ==
  /\ \E rules \in RuleSets : ruleStore = RuleStore(rules)
  /\ messages = <<>>
  /\ input = <<>>
  /\ busy = FALSE
  /\ error = None
  /\ calls = <<>>
  /\ nSends = 0
  /\ nFrames = 0
  /\ storage = None
  /\ pendingLoad = None
  /\ gate = GateAtRest
  /\ editor = EditorAtRest
  /\ engine = EngineAtRest
  /\ dropdown = DropdownAtRest
  /\ deploy = DeployAtRest

RulesNext ==
  \/ CallRules(getRules)
  \/ \E payload \in RulesPayloads : CallRules(updateRules(payload))
  \/ CallRules(previewRulesAIUpdate(<<"h", "i">>))
  \/ CallRules(applyRulesAIUpdate(<<"h", "i">>))
  \/ \E apply \in {None, Some(FALSE), Some(TRUE)} :
       CallRules(askRulesCopilot(<<UserMessage(<<"h", "i">>)>>, apply))
  \/ \E i \in 1..MaxInFlight :
       \E outcome \in {None} \cup {Some(r) : r \in RulesPayloads} :
         RulesServed(i, outcome)

RulesSpec == RulesInit /\ [][RulesNext]_vars

\* ------------------------------------------------------------ the engine
\* conditional rules of at most two conditions, and the keys looked up
ConditionalRules ==
  {[_default |-> JsString(<<"d">>), conditions |-> c] :
     c \in {<<>>}
        \cup {<<[key |-> k, value |-> JsString(v)]>> :
                k \in {<<"U", "K">>, <<"u", "k">>, <<"U">>},
                v \in {<<"a">>, <<>>}}
        \cup {<<[key |-> <<"U", "K">>, value |-> JsString(<<"a">>)],
                [key |-> k, value |-> JsString(<<"b">>)]>> :
                k \in {<<"u", "k">>, <<"U">>}}}

LookupKeys == {<<"U", "K">>, <<"u", "k">>, <<" ", "U", "K">>, <<"U">>, <<>>}

\* product slots: absent, empty, and populated with a quantity and a
\* price per unit that are texts, one of them no number
Slots ==
  {[product |-> None, quantity |-> <<>>, price |-> <<>>],
   [product |-> Some(<<>>), quantity |-> <<"2">>, price |-> <<"7">>],
   [product |-> Some(<<"P">>), quantity |-> <<"3">>,
    price |-> <<"1", ".", "5">>],
   [product |-> Some(<<"Q">>), quantity |-> <<"3">>, price |-> <<"7">>],
   [product |-> Some(<<"R">>), quantity |-> <<"x">>, price |-> <<"7">>]}

Records == {[slots |-> <<a, b, c>>] : a, b, c \in Slots}

TaxRules ==
  {[salesTaxRate |-> [_default |-> JsString(t), conditions |-> <<>>]] :
     t \in {<<"0">>, <<"0", ".", "2">>}}

EngineInit ==
  /\ \/ \E r \in ConditionalRules, k \in LookupKeys :
          engine = Engine("resolve", r, k)
     \/ \E rules \in TaxRules, record \in Records :
          engine = Engine("build", rules, record)
  /\ messages = <<>>
  /\ input = <<>>
  /\ busy = FALSE
  /\ error = None
  /\ calls = <<>>
  /\ nSends = 0
  /\ nFrames = 0
  /\ storage = None
  /\ pendingLoad = None
  /\ gate = GateAtRest
  /\ editor = EditorAtRest
  /\ ruleStore = RuleStoreAtRest
  /\ dropdown = DropdownAtRest
  /\ deploy = DeployAtRest

EngineNext ==
  \/ Resolve
  \/ Build

EngineSpec == EngineInit /\ [][EngineNext]_vars

\* ---------------------------------------------------------- the dropdown
\* what the two requests of load return
CustomerLists ==
  {<<>>, <<<<"T", "o">>>>, <<<<"T", "o">>, <<"t", "i">>>>,
   <<<<"t", "i">>, <<"T", "o">>>>}

NameMappings ==
  {None, Some(<<>>)}
    \cup {Some(<<[key |-> <<"T", "o">>, value |-> JsString(v)]>>) :
            v \in {<<>>, <<"T", "o">>, <<"X">>}}
    \cup {Some(<<[key |-> <<"T", "o">>, value |-> JsString(<<"X">>)],
                 [key |-> <<"t", "i">>, value |-> JsString(v)]>>) :
            v \in {<<>>, <<"Y">>}}

DropdownInit ==
  /\ dropdown = CustomerDropdown
  /\ messages = <<>>
  /\ input = <<>>
  /\ busy = FALSE
  /\ error = None
  /\ calls = <<>>
  /\ nSends = 0
  /\ nFrames = 0
  /\ storage = None
  /\ pendingLoad = None
  /\ gate = GateAtRest
  /\ editor = EditorAtRest
  /\ ruleStore = RuleStoreAtRest
  /\ engine = EngineAtRest
  /\ deploy = DeployAtRest

DropdownNext ==
  \/ \E c \in CustomerLists, m \in NameMappings : LoadResolves(c, m)
  \/ LoadFails
  \/ \E text \in {<<>>, <<"T">>, <<" ", "o">>, <<"i">>, <<"z">>} : setQuery(text)

DropdownSpec == DropdownInit /\ [][DropdownNext]_vars

\* ------------------------------------------------------- the deployment
DeployInit ==
  /\ deploy = DeployScript
  /\ messages = <<>>
  /\ input = <<>>
  /\ busy = FALSE
  /\ error = None
  /\ calls = <<>>
  /\ nSends = 0
  /\ nFrames = 0
  /\ storage = None
  /\ pendingLoad = None
  /\ gate = GateAtRest
  /\ editor = EditorAtRest
  /\ ruleStore = RuleStoreAtRest
  /\ engine = EngineAtRest
  /\ dropdown = DropdownAtRest

DeployNext ==
  \/ SetupSucceeds
  \/ SetupFails
  \/ \E code \in {"200", "503", "000"} : wait_for_http_200(code)
  \/ DeployCompletes
  \/ TmuxLsFails

DeploySpec == DeployInit /\ [][DeployNext]_vars

\* ---------------------------------------------------------------- C11
\* the requests that wait for their response
Fetching(cs) == SelectSeq(cs, LAMBDA c : c.pc = "fetch")

\* C11: the session never retries.  A step issues a chat/stream request
\* only if it is a send, and a send issues exactly one: in every other
\* step, whatever failed or ended in it, the requests that wait for a
\* response afterwards are requests that waited before it.
C11_OneRequestPerSend ==
  [][IF SendStep
       THEN /\ calls' # <<>>
            /\ calls'[Len(calls')].pc = "fetch"
            /\ Fetching(calls') = Append(Fetching(calls), calls'[Len(calls')])
       ELSE /\ Len(calls') = Len(calls)
            /\ \A i \in 1..Len(calls') :
                 calls'[i].pc = "fetch" => calls[i].pc = "fetch"]_vars

\* an exchange failed after a chunk was applied, and nothing is in flight
C11_Witness ==
  /\ \E i \in CallIds :
       /\ calls[i].pc = "done"
       /\ calls[i].failure # "none"
       /\ calls[i].applied # <<>>
  /\ Running(calls) = <<>>
  /\ ~busy

\* ---------------------------------------------------------------- C12
\* C12 as stated: in every reachable state the history holds at most 200
\* messages.
C12_HistoryAtMost200 == Len(messages) <= HistoryCap

\* C12, amended: the cap is on the stored copy.  The item always holds at
\* most 200 messages, and on a page that has rendered what it loaded it
\* holds the last 200 messages of the history, or all of them when there
\* are fewer.
C12_StoredHistoryAtMost200 ==
  /\ storage # None
  /\ Len(Restorable(storage)) <= HistoryCap
  /\ pendingLoad = None =>
       Restorable(storage) = SubSeq(messages,
                                    IF Len(messages) > HistoryCap
                                      THEN Len(messages) - HistoryCap + 1
                                      ELSE 1,
                                    Len(messages))

\* a send took the history past 200 messages; the item holds the last 200
C12_Witness ==
  /\ pendingLoad = None
  /\ Len(messages) = HistoryCap + 2
  /\ Len(Restorable(storage)) = HistoryCap
  /\ Restorable(storage)[1] = messages[3]
  /\ Restorable(storage)[HistoryCap] = messages[HistoryCap + 2]

\* ---------------------------------------------------------------- C13
\* the history of the page: what it shows, or what it is about to show
\* while the list it loaded waits to be rendered
History == IF pendingLoad # None THEN pendingLoad[1] ELSE messages

\* C13: at every point, also in the middle of a stream and while the page
\* mounts, a reload restores the last 200 messages of the history: the
\* write of the persistence effect on mount loses nothing.
C13_ReloadRestoresHistory ==
  Restorable(storage) = SliceLast(History, HistoryCap)

\* ---------------------------------------------------------------- C14
\* C14: a chat/stream request is issued only in a state in which
\* can_use_chat is true for the schema the server holds.
C14_SendOnlyWhenReady ==
  [][SendStep => status(gate.schema).can_use_chat]_vars

\* ---------------------------------------------------------------- C15
\* the status requests of the entry points have been answered and no
\* handler of the schema page is running
EntryPointsSettled ==
  /\ gate.navPc = "loaded"
  /\ SchemaPageIdle
  /\ ~gate.loading

\* C15: readiness is never stale.  Once the mutations of the schema page
\* have run to their end, the Rules Chat link of the navigation bar and
\* the Go to Rules link of the schema page are locked or unlocked by the
\* readiness of the schema as it is now.
C15_ReadinessNeverStale ==
  EntryPointsSettled =>
    /\ gate.canUseChat = status(gate.schema).can_use_chat
    /\ gate.route = "schema" =>
         gate.schemaStatus.can_use_chat = status(gate.schema).can_use_chat

\* ---------------------------------------------------------------- C16
ThreeCounts(st) ==
  /\ st.erp_columns_count >= 1
  /\ st.crm_columns_count >= 1
  /\ st.notification_emails_count >= 1

AddRequests ==
  {upsertERPSchemaColumn(n) : n \in ErpNames}
    \cup {addCRMColumn(n) : n \in CrmNames}
    \cup {addNotificationEmail(e) : e \in Emails}

\* C17: readiness monotonicity.  While the request the server is to
\* answer is one that adds an ERP column, a CRM column or an email, no
\* step decreases any of the three counts of status() and none turns
\* can_use_chat from true to false.
C17_AddingNeverDecreases ==
  [][(gate.requests # <<>> /\ Head(gate.requests) \in AddRequests) =>
       /\ status(gate'.schema).erp_columns_count
            >= status(gate.schema).erp_columns_count
       /\ status(gate'.schema).crm_columns_count
            >= status(gate.schema).crm_columns_count
       /\ status(gate'.schema).notification_emails_count
            >= status(gate.schema).notification_emails_count
       /\ status(gate.schema).can_use_chat
            => status(gate'.schema).can_use_chat]_vars

\* a second ERP column was added to a schema that is ready
C17_Witness ==
  /\ gate.schema.erp = ErpNames
  /\ status(gate.schema).can_use_chat

\* ---------------------------------------------------------------- C18
\* a step in which save calls onSave
OnSaveInvoked == editor.payload = None /\ editor'.payload # None

\* two rows hold the same non-blank key
IdenticalKeys(rows) ==
  \E i, j \in 1..Len(rows) :
    i < j /\ rows[i].key = rows[j].key /\ Trim(rows[i].key) # <<>>

\* two rows that both hold a value hold the same key, white space around
\* the keys aside
CompleteDuplicates(rows) ==
  \E i, j \in 1..Len(rows) :
    /\ i < j
    /\ Trim(rows[i].key) = Trim(rows[j].key)
    /\ Trim(rows[i].key) # <<>>
    /\ Trim(rows[i].value) # <<>>
    /\ Trim(rows[j].value) # <<>>

\* C18 as stated: whatever the values of the rows are, onSave is not
\* called for an edit in which two rows hold the same key.
C18_IdenticalKeysNeverSaved ==
  [][IdenticalKeys(editor.rows) => ~OnSaveInvoked]_vars

\* C18, amended: onSave is not called for an edit in which two rows
\* that both hold a value hold the same key after trimming, and the
\* error such a save leaves names the duplicate keys.
C18_CompleteDuplicatesRejected ==
  [][CompleteDuplicates(editor.rows)
       => /\ ~OnSaveInvoked
          /\ (/\ ~editor.saving
              /\ editor'.rows = editor.rows
              /\ editor'.error # editor.error)
             => \E keys \in SUBSET {Trim(editor.rows[i].key) :
                                      i \in 1..Len(editor.rows)} :
                  /\ keys # {}
                  /\ editor'.error = Some(DuplicateMessage(keys))]_vars

\* a save was refused for two rows "a" and "a " that both hold a value
C18_Witness ==
  /\ CompleteDuplicates(editor.rows)
  /\ ~IdenticalKeys(editor.rows)
  /\ editor.error = Some(DuplicateMessage({<<"a">>}))
  /\ ~editor.saving
  /\ editor.payload = None

\* ---------------------------------------------------------------- C19
\* a whole number
IsInteger(v) == v.type = "number" /\ ~v.nan /\ v.num % v.den = 0

\* C19 as stated: every payload save submits for deliveryDays has an
\* integer default and integer condition values.
C19_NumericPayloadIsInteger ==
  [][(OnSaveInvoked /\ isNumericConditional(editor.ruleType))
       => /\ IsInteger(editor'.payload[1]._default)
          /\ \A i \in 1..Len(editor'.payload[1].conditions) :
               IsInteger(editor'.payload[1].conditions[i].value)]_vars

\* ---------------------------------------------------------------- C20
\* a preview, or a question to the copilot that is not told to apply
IsProposalCall(req) ==
  \/ req.call = "previewRulesAIUpdate"
  \/ req.call = "askRulesCopilot" /\ req.given \in {None, Some(FALSE)}

\* C20: a step in which the server serves a preview, or a copilot call
\* made without apply or with apply = false, leaves the rules of the
\* store, which are what a GET returns, as they were, whatever rules the
\* response proposes.
C20_ProposalLeavesRules ==
  [][(/\ Len(ruleStore'.requests) < Len(ruleStore.requests)
      /\ IsProposalCall(ruleStore'.response[1].request))
       => /\ ruleStore'.rules = ruleStore.rules
          /\ ServeRules(ruleStore'.rules, getRules, None).rules
               = ServeRules(ruleStore.rules, getRules, None).rules
          /\ ~ruleStore'.response[1].applied]_vars

\* a preview was answered with a proposal that differs from the rules
C20_Witness ==
  /\ ruleStore.response # None
  /\ ruleStore.response[1].request = previewRulesAIUpdate(<<"h", "i">>)
  /\ ruleStore.response[1].updated_rules # None
  /\ ruleStore.response[1].updated_rules # Some(ruleStore.rules)
  /\ ~ruleStore.response[1].applied

\* ---------------------------------------------------------------- C21
\* a step in which the server serves a request
RulesServedStep == Len(ruleStore'.requests) < Len(ruleStore.requests)

\* C21: a write is all or nothing.  A step changes the rules only by
\* serving a PUT or an applied mutation, and then the rules are the whole
\* valid rule set that was written; an apply call that is answered with
\* a proposal leaves every returned change committed, and a response that
\* is not applied none of them; a PUT whose body is not valid leaves the
\* rules as they were.
C21_WriteIsAllOrNothing ==
  [][/\ ruleStore'.rules # ruleStore.rules
          => /\ RulesServedStep
             /\ ValidRules(ruleStore'.rules)
             /\ \/ /\ ruleStore'.response[1].request.method = "PUT"
                   /\ ruleStore'.rules = ruleStore'.response[1].request.rules[1]
                \/ /\ ruleStore'.response[1].applied
                   /\ ruleStore'.rules = ruleStore'.response[1].updated_rules[1]
     /\ RulesServedStep
          => /\ \A i \in 1..Len(ruleStore'.response[1].changes) :
                  ruleStore'.rules[ruleStore'.response[1].changes[i].path]
                    = IF ruleStore'.response[1].applied
                        THEN ruleStore'.response[1].changes[i].after
                        ELSE ruleStore'.response[1].changes[i].before
             /\ (/\ ruleStore'.response[1].request.call = "applyRulesAIUpdate"
                 /\ ruleStore'.response[1].updated_rules # None)
                  => /\ ruleStore'.response[1].applied
                     /\ ruleStore'.rules = ruleStore'.response[1].updated_rules[1]
             /\ (/\ ruleStore'.response[1].request.method = "PUT"
                 /\ ~ValidRules(ruleStore'.response[1].request.rules[1]))
                  => ruleStore'.rules = ruleStore.rules]_vars

\* an apply call was answered with two changes, both committed
C21_Witness ==
  /\ ruleStore.response # None
  /\ ruleStore.response[1].request = applyRulesAIUpdate(<<"h", "i">>)
  /\ ruleStore.response[1].applied
  /\ Len(ruleStore.response[1].changes) = 2
  /\ ruleStore.rules = ruleStore.response[1].updated_rules[1]

\* ---------------------------------------------------------------- C22
\* the store after the server has applied updated_rules to it
ApplyOnce(rules, updated_rules) ==
  ServeRules(rules, applyRulesAIUpdate(<<"h", "i">>),
             Some(updated_rules)).rules

C23_ResolveIsExactLookup ==
  (engine.kind = "resolve" /\ engine.result # None)
    => /\ \A i \in 1..Len(engine.rule.conditions) :
            engine.rule.conditions[i].key = engine.input
              => engine.result[1] = engine.rule.conditions[i].value
       /\ (\A i \in 1..Len(engine.rule.conditions) :
             engine.rule.conditions[i].key # engine.input)
            => engine.result[1] = engine.rule._default

\* " UK" was looked up in a rule with a condition for "UK" and resolved
\* to the default
C23_Witness ==
  /\ engine.kind = "resolve"
  /\ engine.input = <<" ", "U", "K">>
  /\ HasOwn(engine.rule.conditions, <<"U", "K">>)
  /\ engine.result = Some(engine.rule._default)

\* ---------------------------------------------------------------- C24
\* C24 as stated: the display follows map.  Each option of the dropdown
\* shows its customer alone when map leaves the name as it is, and the
\* customer with the name map gives it otherwise, the empty name included.
C24_DisplayFollowsMap ==
  dropdown.pc = "loaded"
    => \A i \in 1..Len(filtered(dropdown.customers, dropdown.query)) :
         \E customer \in {filtered(dropdown.customers, dropdown.query)[i]} :
           OptionText(dropdown.mappedNames, customer)
             = IF map(dropdown.mappedNames, customer) = customer
                 THEN customer
                 ELSE customer \o <<" ", "-", ">", " ">>
                        \o map(dropdown.mappedNames, customer)

\* ---------------------------------------------------------------- C25
\* two numbers that are not NaN are the same number
SameNumber(a, b) == ~a.nan /\ ~b.nan /\ a.num * b.den = b.num * a.den

PollingRound ==
  /\ deploy.pc = "wait"
  /\ deploy' # deploy

\* C26: no health check runs more than its tries rounds; a round is run
\* only for a check that has neither succeeded nor failed; the check
\* succeeds in the round that reads 200 and only in it, after which no
\* round of it follows, and fails after its last round if that does not
\* read 200 and only then, which ends the script with status 1; and
\* Deploy complete is logged only when all three checks succeeded and
\* none failed.
C26_PollingIsBounded ==
  [][/\ deploy'.i <= HealthTries
     /\ PollingRound
          => \E c \in {deploy.check}, code \in {"200", "503", "000"} :
               /\ deploy.i < HealthTries
               /\ c \notin deploy.ok \cup deploy.failed
               /\ (c \in deploy'.ok) <=> (code = "200")
               /\ (c \in deploy'.failed)
                    <=> (code # "200" /\ deploy.i + 1 = HealthTries)
               /\ c \in deploy'.ok
                    => \/ deploy'.check = c + 1 /\ deploy'.i = 0
                       \/ deploy'.pc = "tail"
               /\ c \in deploy'.failed
                    => deploy'.pc = "exited" /\ deploy'.status = Some(1)
               /\ c \notin deploy'.ok \cup deploy'.failed
                    => /\ deploy'.check = c
                       /\ deploy'.i = deploy.i + 1
                       /\ deploy'.code = Some(code)
                       /\ deploy'.pc = "wait"
     /\ deploy'.complete
          => /\ deploy'.failed = {}
             /\ deploy'.ok = 1..Len(HealthChecks)
             /\ deploy'.status = Some(0)
     /\ deploy'.failed # {} => ~deploy'.complete]_vars

\* Deploy complete was logged after the ui answered 200 only in the last
\* round of its check
C26_Witness ==
  /\ deploy.complete
  /\ deploy.check = Len(HealthChecks)
  /\ deploy.i = HealthTries
  /\ deploy.code = Some("200")

\* ---------------------------------------------------------------- C27
\* the step in which call i processes an error event
ErrorEventStep(i) ==
  /\ calls[i].failure = "none"
  /\ calls'[i].failure = "error_event"

\* C27: the step that processes an error event applies the chunks the
\* server wrote before that event and no chunk written after it, in the
\* same read or not, so the history is what those chunks and the catch
\* block make of it; the call has then returned, what the server wrote
\* after the event is never read, and no later step changes the call or
\* the history.
C27_NothingAfterErrorEvent ==
  [][\A i \in CallIds :
       /\ ErrorEventStep(i) =>
            /\ calls'[i].applied = calls[i].beforeError
            /\ calls'[i].pc = "done"
            /\ calls'[i].wire = <<>>
            /\ calls'[i].buffer = <<>>
            /\ messages' =
                 CatchUpdater(
                   ChunkUpdater(messages, calls[i].assistantIndex,
                     SubSeq(calls[i].beforeError, Len(calls[i].applied) + 1,
                            Len(calls[i].beforeError))),
                   calls[i].assistantIndex,
                   ErrorEventMessage(calls[i].firstError[1]))
       /\ calls[i].failure = "error_event" =>
            /\ calls' = calls
            /\ messages' = messages]_vars

\* an error event was processed and the chunk the server wrote after it
\* was not
C27_Witness ==
  \E i \in CallIds :
    /\ calls[i].failure = "error_event"
    /\ calls[i].firstError = Some(<<"x">>)
    /\ calls[i].expected = <<"a">>
    /\ calls[i].applied = <<>>
    /\ PlaceholderPresent(calls[i])
    /\ Placeholder(calls[i]).content = ErrorMarker(<<"x">>)

\* ---------------------------------------------------------------- C28
\* the step in which call i finds the body ended
StreamEndStep(i) ==
  /\ calls[i].pc = "read"
  /\ calls'[i].pc = "done"
  /\ calls'[i].failure = "none"

\* C28: the step that finds the body ended changes neither the history
\* nor the error field nor the chunks applied, whatever the buffer holds,
\* and the buffer is gone after it; and a call whose body ended with an
\* unterminated frame has applied only chunks of terminated frames and
\* has failed with an error event only if a terminated frame held one.
C28_DanglingFrameDiscarded ==
  [][\A i \in CallIds :
       /\ StreamEndStep(i) =>
            /\ messages' = messages
            /\ error' = error
            /\ calls'[i].applied = calls[i].applied
            /\ calls'[i].buffer = <<>>
       /\ calls'[i].dangling =>
            /\ Len(calls'[i].applied) <= Len(calls'[i].expected)
            /\ calls'[i].applied =
                 SubSeq(calls'[i].expected, 1, Len(calls'[i].applied))
            /\ calls'[i].failure = "error_event"
                 => calls'[i].firstError # None]_vars

\* the body ended with an error frame that lacked its blank line, after
\* a chunk: the chunk is in the placeholder and no error is set
C28_Witness ==
  \E i \in CallIds :
    /\ calls[i].pc = "done"
    /\ calls[i].failure = "none"
    /\ calls[i].dangling
    /\ calls[i].applied = <<"a">>
    /\ calls[i].firstError = None
    /\ error = None
    /\ PlaceholderPresent(calls[i])
    /\ Placeholder(calls[i]).content = <<"a">>

\* ---------------------------------------------------------------- C29
\* a step of the stream of call i: the request settles, the server
\* writes, or a read resolves or rejects
StreamStep(i) ==
  /\ calls[i].pc # "done"
  /\ Len(calls') = Len(calls)
  /\ calls'[i] # calls[i]

\* C29: a step of a stream leaves the length of the history unchanged,
\* and every message it changes is the assistant message at the
\* assistantIndex of the call, right after the user message of its
\* prompt, and is an assistant message afterwards.
C29_OnlyPlaceholderChanges ==
  [][\A i \in CallIds :
       StreamStep(i) =>
         /\ Len(messages') = Len(messages)
         /\ \A j \in 1..Len(messages) :
              messages'[j] # messages[j] =>
                /\ j = calls[i].assistantIndex + 1
                /\ messages[j].role = "assistant"
                /\ messages'[j].role = "assistant"
                /\ messages[j - 1] = UserMessage(calls[i].prompt)]_vars

\* a chunk was appended to the placeholder of an exchange that follows a
\* restored exchange, which is as it was stored
C29_Witness ==
  \E i \in CallIds :
    /\ calls[i].applied = <<"a">>
    /\ calls[i].assistantIndex = 3
    /\ Len(messages) = 4
    /\ SubSeq(messages, 1, 2) = StoredExchange(<<"a">>)
    /\ messages[3] = UserMessage(calls[i].prompt)
    /\ messages[4] = AssistantMessage(<<"a">>)

\* ---------------------------------------------------------------- C30
\* all the server wrote for the call are terminated event frames of type
\* start, done or a type the page does not know
QuietStream(c) == c.expected = <<>> /\ ~c.malformed /\ c.firstError = None

\* a read of call i resolved with bytes
ReadStep(i) ==
  /\ calls[i].pc = "read"
  /\ Len(calls') = Len(calls)
  /\ Len(calls'[i].wire) < Len(calls[i].wire) \/ calls'[i].pc = "done"
  /\ calls[i].wire # <<>>
  /\ calls'[i].failure # "network"

\* C30: a read that processes neither a chunk event nor a throwing event
\* leaves the history, the error field and the busy flag unchanged and
\* the call reading; a stream of start, done and unknown events alone
\* never fails in the loop and, while it has not failed, leaves the
\* placeholder empty, the error unset and the session busy as long as it
\* is read; and busy becomes false only in the step in which a call finds
\* its body ended or fails.
C30_OtherEventsChangeNothing ==
  [][/\ \A i \in CallIds :
          /\ (ReadStep(i) /\ calls'[i].applied = calls[i].applied
                /\ calls'[i].failure = "none") =>
               /\ messages' = messages
               /\ error' = error
               /\ busy' = busy
               /\ calls'[i].pc = "read"
          /\ (Len(calls') = Len(calls) /\ QuietStream(calls'[i])) =>
               /\ calls'[i].failure \in {"none", "network"}
               /\ (calls'[i].failure = "none" /\ calls[i].pc # "fetch") =>
                    /\ error' = error
                    /\ messages' = messages
                    /\ calls'[i].pc = "read" => busy'
     /\ (busy /\ ~busy') =>
          \E i \in CallIds :
            /\ calls[i].pc # "done"
            /\ calls'[i].pc = "done"
            /\ \/ calls'[i].failure # "none"
               \/ calls[i].pc = "read" /\ calls[i].wire = <<>>]_vars

\* two frames of a stream of start, done and unknown events, one of them
\* a done event, have been processed: the session is still busy, the
\* placeholder empty and no error set
C30_Witness ==
  \E i \in CallIds :
    /\ calls[i].pc = "read"
    /\ calls[i].wire = <<>>
    /\ calls[i].buffer = <<>>
    /\ nFrames = 2
    /\ QuietStream(calls[i])
    /\ calls[i].sawDone
    /\ busy
    /\ error = None
    /\ PlaceholderPresent(calls[i])
    /\ Placeholder(calls[i]).content = <<>>

\* ---------------------------------------------------------------- C31
\* C31: while a call is running, a history that is empty (the call's
\* send appended two messages, so it was cleared since) stays empty in
\* every step of the stream, chunk, failure or end of body; the step in
\* which the call returns leaves the session not busy; and an empty
\* history becomes non-empty only by a send or by the load of a reloaded
\* page.
C31_ClearWhileStreaming ==
  [][/\ \A i \in CallIds :
          (StreamStep(i) /\ messages = <<>>) =>
            /\ messages' = <<>>
            /\ calls'[i].pc = "done" => ~busy'
     /\ (messages = <<>> /\ messages' # <<>>) =>
          \/ SendStep
          \/ pendingLoad # None]_vars

\* the history was cleared while the response streamed; the error event
\* that arrived afterwards set the error field and ended the exchange,
\* and the history is still empty
C31_Witness ==
  \E i \in CallIds :
    /\ calls[i].pc = "done"
    /\ calls[i].failure = "error_event"
    /\ calls[i].applied = <<"a">>
    /\ messages = <<>>
    /\ error = Some(<<"x">>)
    /\ ~busy

\* ---------------------------------------------------------------- C32
\* C32: in a state whose input is empty or white space only, no step is
\* a send: no request is issued, the history does not grow, busy does
\* not become true, and the error field is not reset except by a clear
\* of the history.
C32_BlankSendIsNoOp ==
  [][Trim(input) = <<>> =>
       /\ nSends' = nSends
       /\ Len(Fetching(calls')) <= Len(Fetching(calls))
       /\ Len(messages') <= Len(messages)
       /\ busy' => busy
       /\ input' = input \/ ~busy
       /\ (error # None /\ error' = None) => messages' = <<>>]_vars

\* after a failed exchange the input holds a space: handleSend called
\* now returns at its check of the prompt, the error stays
C32_Witness ==
  /\ input = <<" ">>
  /\ Trim(input) = <<>>
  /\ ~busy
  /\ ~canSend
  /\ error # None
  /\ nSends = 1
  /\ Len(messages) = 2

\* ---------------------------------------------------------------- C33
\* the entries of rule data: the rule itself, or its conditions
EntriesOf(ruleType, data) ==
  IF isMappingRule(ruleType) \/ isConfigRule(ruleType) THEN data
  ELSE data.conditions

\* every key and value of the rule data is non-empty and has no white
\* space around it
CleanRule(ruleType, data) ==
  \A i \in 1..Len(EntriesOf(ruleType, data)) :
    \E e \in {EntriesOf(ruleType, data)[i]} :
      /\ e.key # <<>> /\ Trim(e.key) = e.key
      /\ String(e.value) # <<>> /\ Trim(String(e.value)) = String(e.value)

\* the editor shows the rule as it was loaded
Unedited ==
  /\ editor.ruleData # None
  /\ editor.rows = initialState(editor.ruleType, editor.ruleData).rows
  /\ editor.defaultValue =
       initialState(editor.ruleType, editor.ruleData).defaultValue

\* save has run in this step
SaveStep ==
  /\ ~editor.saving
  /\ editor'.rows = editor.rows
  /\ editor' # editor

NonBlankRows(rows) ==
  SelectSeq(rows, LAMBDA r : Trim(r.key) # <<>> /\ Trim(r.value) # <<>>)

\* C33: save on an editor that shows a loaded rule whose keys and values
\* are non-empty and trimmed passes the loaded rule data to onSave; and
\* save on any rows passes one entry for each row whose trimmed key and
\* trimmed value are non-empty, under the trimmed key and in the order of
\* the rows, and nothing for the other rows, unless two of the non-blank
\* rows have the same trimmed key.
C33_EditorRoundTrip ==
  [][SaveStep =>
       /\ (Unedited /\ CleanRule(editor.ruleType, editor.ruleData[1]))
            => editor'.payload = Some(editor.ruleData[1])
       /\ \E rows \in {NonBlankRows(editor.rows)} :
            IF \E i, j \in 1..Len(rows) :
                 i # j /\ Trim(rows[i].key) = Trim(rows[j].key)
              THEN editor'.payload = None
              ELSE /\ editor'.payload # None
                   /\ \E p \in {EntriesOf(editor.ruleType,
                                         editor'.payload[1])} :
                        /\ Len(p) = Len(rows)
                        /\ \A i \in 1..Len(rows) :
                             p[i].key = Trim(rows[i].key)]_vars

\* ---------------------------------------------------------------- C34
\* handleSaveErpColumn is running for a column that is given a new name
Renaming ==
  /\ gate.saveErp # None
  /\ gate.saveErp[1].original # None
  /\ gate.saveErp[1].original[1] # gate.saveErp[1].name

\* C34: while a rename of an ERP column runs, no step leaves the server
\* without the column under both names if it held it under one; the old
\* name is removed only in a state that already holds the new name; and
\* when both requests have succeeded the server holds the new name and
\* not the old one.
C34_RenameKeepsColumn ==
  [][Renaming =>
       \E old \in {gate.saveErp[1].original[1]},
          new \in {gate.saveErp[1].name} :
         /\ (old \in gate.schema.erp \/ new \in gate.schema.erp)
              => (old \in gate'.schema.erp \/ new \in gate'.schema.erp)
         /\ (old \in gate.schema.erp /\ old \notin gate'.schema.erp)
              => (new \in gate.schema.erp /\ new \in gate'.schema.erp)
         /\ (~gate.refreshing /\ gate'.refreshing)
              => (new \in gate'.schema.erp /\ old \notin gate'.schema.erp)
         /\ (gate.requests # <<>> /\ gate'.requests = <<>>
               /\ ~gate'.refreshing)
              => (old \in gate.schema.erp => old \in gate'.schema.erp)]_vars

\* both requests of a rename of a to b have succeeded: the server holds
\* b alone and the handler awaits refreshSchema
C34_Witness ==
  /\ Renaming
  /\ gate.saveErp[1].original = Some("a")
  /\ gate.saveErp[1].name = "b"
  /\ gate.refreshing
  /\ gate.schema.erp = {"b"}

\* ---------------------------------------------------------------- C35
ValidationErrors ==
  {Some("ERP column name is required."),
   Some("ERP rules must be a valid JSON object."),
   Some("CRM column name is required.")}

\* a handler of the schema page is between its first await and its end
HandlerRunning(g) == g.requests # <<>> \/ g.refreshing

\* C35: a step that sets one of the validation errors issues no request
\* and leaves the server's schema, the schema and the status the page
\* shows and busy unchanged; the requests a handler issues carry no blank
\* name when they add or rename, and the rules of a saved ERP column are
\* a JSON object; and busy is true exactly while a handler is running,
\* so it is false again after the handler's last step, whatever the
\* outcome of its requests.
C35_FormChecksAndBusy ==
  [][/\ (gate'.error \in ValidationErrors /\ gate'.error # gate.error) =>
          /\ ~gate.busy
          /\ gate'.busy = gate.busy
          /\ gate'.requests = <<>>
          /\ ~gate'.refreshing
          /\ gate'.schema = gate.schema
          /\ gate'.schemaStore = gate.schemaStore
          /\ gate'.schemaStatus = gate.schemaStatus
     /\ (~HandlerRunning(gate) /\ HandlerRunning(gate')) =>
          /\ gate'.busy
          /\ gate'.error = None
          /\ \A k \in 1..Len(gate'.requests) :
               \E req \in {gate'.requests[k]} :
                 req.method # "DELETE" =>
                   /\ req.resource = "erp" => req.name \notin {"", " "}
                   /\ req.resource # "erp" => req.arg \notin {"", " "}
          /\ gate'.saveErp # None =>
               gate'.saveErp[1].parsedRules = "object"
     /\ (HandlerRunning(gate) /\ ~HandlerRunning(gate')) => ~gate'.busy
     /\ gate'.route = "schema" =>
          (gate'.busy <=> HandlerRunning(gate'))]_vars

\* Save was clicked with rules that are a JSON array: the page shows the
\* error, is not busy, and shows the schema the server holds
C35_Witness ==
  /\ gate.error = Some("ERP rules must be a valid JSON object.")
  /\ ~gate.busy
  /\ ~HandlerRunning(gate)
  /\ gate.schema = ReadySchema
  /\ gate.schemaStore = ReadySchema
  /\ gate.schemaStatus.can_use_chat

\* ---------------------------------------------------------------- C36
\* C36: the Rules Chat entry becomes unlocked only in the step in which
\* the status fetch of a mounted RulesNavLink returns can_use_chat = true;
\* it is locked while the fetch is in flight and after the fetch failed;
\* and once the component is unmounted, the end of the fetch changes
\* nothing but the fetch itself.
C36_NavLinkFailsClosed ==
  [][/\ (~gate.canUseChat /\ gate'.canUseChat) =>
          /\ gate.navPc = "loading"
          /\ gate'.navPc = "loaded"
          /\ ~gate.navCanceled
          /\ status(gate.schema).can_use_chat
     /\ gate'.navPc \in {"loading", "failed"} => ~gate'.canUseChat
     /\ gate.navCanceled =>
          /\ gate'.canUseChat = gate.canUseChat
          /\ gate'.navPc # gate.navPc =>
               gate' = [gate EXCEPT !.navPc = gate'.navPc]]_vars

\* the status fetch returned can_use_chat = true after RulesNavLink was
\* unmounted: the entry is as it was, locked
C36_Witness ==
  /\ gate.navCanceled
  /\ gate.navPc = "loaded"
  /\ status(gate.schema).can_use_chat
  /\ ~gate.canUseChat
====
